---------------------------- MODULE Spec2Model ----------------------------
(***************************************************************************)
(* Service endpoints of rmw_gurumdds_cpp (src/rmw_service.cpp): creation   *)
(* and teardown of a service, the take/send correlation protocol under the *)
(* basic and the enhanced wire variant, the new-request callback and the   *)
(* QoS read-back.                                                          *)
(*                                                                         *)
(* Seven specifications share the variables:                               *)
(*   Spec          rmw_create_service / rmw_destroy_service                *)
(*   SpecTake      rmw_take_request / rmw_send_response on a live service  *)
(*   SpecCallback  rmw_service_set_on_new_request_callback against the     *)
(*                 on_data_available listener on the transport thread      *)
(*   SpecNotify    the same, interleaved with rmw_take_request             *)
(*   SpecThreads   threads in create / destroy under ctx->endpoint_mutex,  *)
(*                 registration and listener calls under the event mutex,  *)
(*                 with fair scheduling                                    *)
(*   SpecTopics    threads in create, one topic call at a time             *)
(*   SpecQos       the two QoS read-back calls on a live service           *)
(***************************************************************************)
EXTENDS Integers, Sequences, FiniteSets, TLC

\* Number of service handles the application creates under the one context.
MaxServices == 2

\* Number of rmw_destroy_service calls the application makes on one handle.
MaxDestroyCalls == 2

Services == 1..MaxServices

VARIABLES
  topics,   \* [TopicNames -> Nat]: references held on each topic of the participant
  topic_objects,  \* [TopicNames -> Nat]: topic objects the participant holds under each name
  ep,       \* [Services -> record]: what each rmw_create_service call left behind
  endpoint_mutex,  \* holder of ctx->endpoint_mutex: "free" or a thread
  thread,   \* [Threads -> record]: the application threads in create / destroy
  service_mapping_basic,  \* ctx->service_mapping_basic: the wire variant of the context
  unread,   \* samples buffered in the request reader and not taken
  unreported,  \* of these, the ones that arrived after the last callback invocation
  header,   \* the caller's rmw_service_info_t (request_header)
  request,  \* the caller's ros_request buffer
  taken,    \* the caller's *taken
  ret,      \* what the last call returned
  call,     \* the last call: its path through the code and what it did
  callback,   \* event_callback_data.callback of the service
  user_data,  \* event_callback_data.user_data
  listening,  \* dds_DATA_AVAILABLE_STATUS is in the mask of the installed listener
  mutex,      \* holder of event_callback_data.mutex: "free", "app" or "dds"
  app,        \* the application thread in rmw_service_set_on_new_request_callback
  dds,        \* the transport thread and its on_data_available deliveries
  qos         \* the caller's rmw_qos_profile_t and the last read-back call on it

lockVars == <<endpoint_mutex, thread>>

lifeVars == <<topics, topic_objects, ep, endpoint_mutex, thread>>

takeVars == <<service_mapping_basic, unread, unreported, header, request, taken, ret, call>>

cbVars == <<callback, user_data, listening, mutex, app, dds>>

vars == <<topics, topic_objects, ep, endpoint_mutex, thread, service_mapping_basic, unread, unreported, header, request, taken,
          ret, call,
          callback, user_data, listening, mutex, app, dds, qos>>

-----------------------------------------------------------------------------
(* rmw_create_service *)

\* Everything one rmw_create_service call allocates (its locals, lines 96-118).
Resources ==
  { "request_typesupport", "response_typesupport", "request_topic", "response_topic",
    "request_reader", "read_condition", "response_writer", "service_info",
    "data_seq", "info_seq", "raw_data_sizes", "rmw_service", "service_name",
    "registration" }

TopicNames == {"request_topic", "response_topic"}

ScratchSeqs == {"data_seq", "info_seq", "raw_data_sizes"}

\* The steps of rmw_create_service that can fail, in the order of the code.
CreateSteps ==
  << "request_typesupport",      \* 159 dds_TypeSupport_create
     "register_request_type",    \* 165 dds_TypeSupport_register_type
     "response_typesupport",     \* 172
     "register_response_type",   \* 178
     "request_topic",            \* 188-204, 215-220 lookup, then create or find
     "request_topic_qos",        \* 206 dds_TopicQos_finalize (created topic only)
     "response_topic",           \* 224-240, 251-256
     "response_topic_qos",       \* 242
     "datareader_qos",           \* 260 get_datareader_qos
     "request_reader",           \* 265 dds_Subscriber_create_datareader
     "datareader_qos_finalize",  \* 273
     "read_condition",           \* 279 dds_DataReader_create_readcondition
     "datawriter_qos",           \* 287 get_datawriter_qos
     "response_writer",          \* 292 dds_Publisher_create_datawriter
     "datawriter_qos_finalize",  \* 300
     "service_info",             \* 306 new ServiceInfo
     "data_seq",                 \* 312 dds_DataSeq_create
     "info_seq",                 \* 317 dds_SampleInfoSeq_create
     "raw_data_sizes",           \* 322 dds_UnsignedLongSeq_create
     "rmw_service",              \* 356 rmw_service_allocate
     "service_name",             \* 364 rmw_allocate
     "registration" >>           \* 372 graph_cache::on_service_created

NumSteps == Len(CreateSteps)

StepIndex(name) == CHOOSE i \in 1..NumSteps : CreateSteps[i] = name

\* The steps after whose failure the code returns nullptr directly (lines 315,
\* 320, 325); every other failing step jumps to the fail label.
ReturnsDirectly == {"data_seq", "info_seq", "raw_data_sizes"}

\* The locals that are non-null when step k is reached: the resources whose
\* allocating step precedes k. k = NumSteps + 1 is the end of the function.
Allocated(k) == { r \in Resources : StepIndex(r) < k }

\* A fail label that deletes the two topics before the reader and the writer
\* that are attached to them.
FailLabelTopicsFirst(A) ==
  LET item(cond, r) == IF cond THEN <<r>> ELSE <<>>
  IN  item("rmw_service" \in A /\ "service_name" \in A, "service_name")
      \o item("rmw_service" \in A, "rmw_service")
      \o item("request_topic" \in A, "request_topic")
      \o item("response_topic" \in A, "response_topic")
      \o item("request_reader" \in A /\ "read_condition" \in A, "read_condition")
      \o item("request_reader" \in A, "request_reader")
      \o item("response_writer" \in A, "response_writer")
      \o item("request_typesupport" \in A, "request_typesupport")
      \o item("response_typesupport" \in A, "response_typesupport")
      \o item("service_info" \in A, "service_info")

\* The fail label (lines 390-425): what it releases, in the order it releases it,
\* given the set A of locals that are non-null.
FailLabel(A) ==
  LET item(cond, r) == IF cond THEN <<r>> ELSE <<>>
  IN  item("rmw_service" \in A /\ "service_name" \in A, "service_name")
      \o item("rmw_service" \in A, "rmw_service")
      \o item("request_reader" \in A /\ "read_condition" \in A, "read_condition")
      \o item("request_reader" \in A, "request_reader")
      \o item("response_writer" \in A, "response_writer")
      \o item("request_topic" \in A, "request_topic")
      \o item("response_topic" \in A, "response_topic")
      \o item("request_typesupport" \in A, "request_typesupport")
      \o item("response_typesupport" \in A, "response_typesupport")
      \o item("service_info" \in A, "service_info")

\* A success path that forgets the response type support.
SuccessReleasesOne == << "request_typesupport" >>

\* Lines 377-380: the success path releases the two type supports.
SuccessReleases == << "request_typesupport", "response_typesupport" >>

Range(s) == { s[i] : i \in 1..Len(s) }

\* What a call that fails at step k (0: no step fails) releases before it returns.
CreateReleases(k) ==
  IF k = 0 THEN SuccessReleases
  ELSE IF CreateSteps[k] \in ReturnsDirectly THEN <<>>
  ELSE FailLabel(Allocated(k))

\* What the call leaves allocated.
CreateRemaining(k) ==
  Allocated(IF k = 0 THEN NumSteps + 1 ELSE k) \ Range(CreateReleases(k))

NoService ==
  [ created   |-> "no",      \* "no", "ok", or the name of the step that failed
    live      |-> {},        \* resources allocated and not released
    released  |-> {},        \* resources released
    dangling  |-> {},        \* released resources a release was called on again
    data      |-> "null",    \* rmw_service->data: "null" or "service_info"
    order     |-> <<>>,      \* the releases of the rmw_create_service call, in order
    torn      |-> <<>>,      \* the calls of the last rmw_destroy_service call, in order
    reg       |-> 0,         \* on_service_created minus on_service_deleted
    destroys  |-> 0,         \* rmw_destroy_service calls on the handle
    afterOk   |-> 0,         \* of these, calls made after one returned RMW_RET_OK
    ret       |-> "none",    \* what the last rmw_destroy_service returned
    uaf       |-> FALSE ]    \* a released rmw_service_t was read

\* The slot a call leaves behind when step k fails (k = 0: none does).
CreateOutcome(k) ==
  LET left == CreateRemaining(k)
  IN  [ NoService EXCEPT !.created = IF k = 0 THEN "ok" ELSE CreateSteps[k],
                         !.live = left,
                         !.released = Range(CreateReleases(k)),
                         !.order = CreateReleases(k),
                         !.data = IF "rmw_service" \in left
                                    THEN "service_info" ELSE "null",
                         !.reg = IF "registration" \in left THEN 1 ELSE 0 ]

TopicsAfterCreate(tp, k) ==
  [t \in TopicNames |-> tp[t] + (IF t \in CreateRemaining(k) THEN 1 ELSE 0)]

\* The topic objects under each name once the references are tp: a topic is
\* created where there was none (190-199, 226-235) and is gone when its last
\* reference is given back (408, 412).
TopicObjectsAfter(objs, tp) ==
  [t \in TopicNames |-> IF tp[t] = 0 THEN 0 ELSE IF objs[t] = 0 THEN 1 ELSE objs[t]]

\* Lines 120-428 for slot e, run under ctx->endpoint_mutex; step k fails
\* (k = 0: none does).
CreateEffect(e, k) ==
  /\ ep[e].created = "no"
  /\ k \in 0..NumSteps
  \* lines 190/211 and 226/247: only a topic this call creates has its QoS finalized
  /\ (k # 0 /\ CreateSteps[k] = "request_topic_qos") => topics["request_topic"] = 0
  /\ (k # 0 /\ CreateSteps[k] = "response_topic_qos") => topics["response_topic"] = 0
  /\ ep' = [ep EXCEPT ![e] = CreateOutcome(k)]
  \* create_topic / find_topic take a reference, delete_topic gives it back
  /\ topics' = TopicsAfterCreate(topics, k)
  /\ topic_objects' = TopicObjectsAfter(topic_objects, topics')

\* rmw_create_service for slot e as one step of a single application thread.
rmw_create_service(e, k) ==
  /\ CreateEffect(e, k)
  /\ UNCHANGED <<qos, lockVars, takeVars, cbVars>>

-----------------------------------------------------------------------------
(* rmw_destroy_service *)

\* One release call (a dds delete, a free, a C++ delete) on resource r: it
\* releases r when r is allocated; otherwise the call is made on an object that
\* was released before (the code never resets a pointer after releasing it).
ReleaseCall(s, r) ==
  IF r \in s.live
    THEN [s EXCEPT !.live = @ \ {r}, !.released = @ \cup {r}, !.torn = Append(@, r)]
    ELSE [s EXCEPT !.dangling = @ \cup {r}, !.torn = Append(@, r)]

\* A release call that the transport or discovery answers with an error: an
\* allocated object stays allocated.
FailedCall(s, r) ==
  IF r \in s.live THEN [s EXCEPT !.torn = Append(@, r)]
  ELSE [s EXCEPT !.dangling = @ \cup {r}, !.torn = Append(@, r)]

RECURSIVE ReleaseAll(_, _)
ReleaseAll(s, calls) ==
  IF calls = <<>> THEN s
  ELSE ReleaseAll(ReleaseCall(s, Head(calls)), Tail(calls))

\* A teardown that updates discovery before it deletes anything.
TeardownCallsDiscoveryFirst ==
  << "registration", "response_writer", "data_seq", "info_seq", "raw_data_sizes",
     "read_condition", "request_reader", "service_info" >>

\* A teardown that also deletes the two topics of the service.
TeardownCallsWithTopics ==
  << "response_writer", "data_seq", "info_seq", "raw_data_sizes", "read_condition",
     "request_reader", "request_topic", "response_topic", "registration",
     "service_info" >>

\* Lines 452-487: the release calls made while service->data is non-null, in the
\* order of the code. response_writer, request_reader and read_condition of
\* ServiceInfo are assigned once (338-340) and are non-null from then on, so the
\* three null checks (452, 465, 466) pass on every call.
TeardownCalls ==
  << "response_writer",                          \* 453
     "data_seq", "info_seq", "raw_data_sizes",   \* 461-463
     "read_condition",                           \* 467
     "request_reader",                           \* 474
     "registration",                             \* 482 on_service_deleted
     "service_info" >>                           \* 487

\* Lines 491-499: the calls made on the handle itself.
HandleCalls == << "service_name", "rmw_service" >>

\* The calls whose result the code checks (455, 469, 476, 482).
DestroyFailPoints == {"response_writer", "read_condition", "request_reader", "registration"}

TeardownIndex(r) == CHOOSE i \in 1..Len(TeardownCalls) : TeardownCalls[i] = r

\* What a read of the released rmw_service_t can produce (440-450): a foreign
\* identifier, the contents it had when it was freed (data null, service_name
\* stale), or a fault.
ReleasedReads == {"mismatch", "stale", "fault"}

\* rmw_destroy_service without the check of line 476: a failed deletion of the
\* request reader goes unnoticed and the call carries on to RMW_RET_OK.
DestroyOutcomeUnchecked(s, f, ub) ==
  LET counted == [s EXCEPT !.destroys = @ + 1, !.torn = <<>>,
                           !.afterOk = IF s.ret = "OK" \/ s.afterOk > 0
                                         THEN @ + 1 ELSE @]
      before(r) == SubSeq(TeardownCalls, 1, TeardownIndex(r) - 1)
      after(r)  == SubSeq(TeardownCalls, TeardownIndex(r) + 1, Len(TeardownCalls))
  IN
  IF "rmw_service" \notin s.live
    THEN [counted EXCEPT !.uaf = TRUE, !.ret = "FAULT"]
  ELSE IF s.data = "null"
    THEN [ReleaseAll(counted, HandleCalls) EXCEPT !.ret = "OK"]
  ELSE IF f = "request_reader"
    THEN LET done == ReleaseAll(FailedCall(ReleaseAll(counted, before(f)), f),
                                after(f) \o HandleCalls)
         IN  [done EXCEPT !.ret = "OK", !.data = "null", !.reg = @ - 1]
  ELSE IF f \in DestroyFailPoints
    THEN [FailedCall(ReleaseAll(counted, before(f)), f) EXCEPT !.ret = "ERROR"]
  ELSE LET done == ReleaseAll(counted, TeardownCalls \o HandleCalls)
       IN  [done EXCEPT !.ret = "OK", !.data = "null", !.reg = @ - 1]

\* rmw_destroy_service that only logs a failed on_service_deleted (482-484) and
\* carries on to release the endpoint record and the handle.
DestroyOutcomeLogsOnly(s, f, ub) ==
  LET counted == [s EXCEPT !.destroys = @ + 1, !.torn = <<>>,
                           !.afterOk = IF s.ret = "OK" \/ s.afterOk > 0
                                         THEN @ + 1 ELSE @]
      before(r) == SubSeq(TeardownCalls, 1, TeardownIndex(r) - 1)
      after(r)  == SubSeq(TeardownCalls, TeardownIndex(r) + 1, Len(TeardownCalls))
  IN
  IF "rmw_service" \notin s.live
    THEN [counted EXCEPT !.uaf = TRUE, !.ret = "FAULT"]
  ELSE IF s.data = "null"
    THEN [ReleaseAll(counted, HandleCalls) EXCEPT !.ret = "OK"]
  ELSE IF f = "registration"
    THEN LET done == ReleaseAll(FailedCall(ReleaseAll(counted, before(f)), f),
                                after(f) \o HandleCalls)
         IN  [done EXCEPT !.ret = "OK", !.data = "null"]
  ELSE IF f \in DestroyFailPoints
    THEN [FailedCall(ReleaseAll(counted, before(f)), f) EXCEPT !.ret = "ERROR"]
  ELSE LET done == ReleaseAll(counted, TeardownCalls \o HandleCalls)
       IN  [done EXCEPT !.ret = "OK", !.data = "null", !.reg = @ - 1]

\* The slot after one rmw_destroy_service call in which the call on f fails
\* (f = "none": none fails) and, on a released handle, the read yields ub.
DestroyOutcome(s, f, ub) ==
  LET counted == [s EXCEPT !.destroys = @ + 1, !.torn = <<>>,
                           !.afterOk = IF s.ret = "OK" \/ s.afterOk > 0
                                         THEN @ + 1 ELSE @]
  IN
  IF "rmw_service" \notin s.live
    THEN \* 440: service->implementation_identifier read from released memory
         LET read == [counted EXCEPT !.uaf = TRUE]
         IN  CASE ub = "mismatch" -> [read EXCEPT !.ret = "INCORRECT_RMW_IMPLEMENTATION"]
               [] ub = "stale"    -> [ReleaseAll(read, HandleCalls) EXCEPT !.ret = "OK"]
               [] OTHER           -> [read EXCEPT !.ret = "FAULT"]
  ELSE IF s.data = "null"
    THEN [ReleaseAll(counted, HandleCalls) EXCEPT !.ret = "OK"]
  ELSE IF f \in DestroyFailPoints
    THEN LET done == ReleaseAll(counted, SubSeq(TeardownCalls, 1, TeardownIndex(f) - 1))
         IN  [FailedCall(done, f) EXCEPT !.ret = "ERROR"]
  ELSE LET done == ReleaseAll(counted, TeardownCalls \o HandleCalls)
       IN  [done EXCEPT !.ret = "OK", !.data = "null", !.reg = @ - 1]

\* The references on the participant's topics after a call that took the slot
\* from before to after: every dds_DomainParticipant_delete_topic the call made
\* on a topic it held gives one reference back.
TopicsAfterDestroy(tp, before, after) ==
  [t \in TopicNames |->
     tp[t] - (IF t \in before.live /\ t \notin after.live THEN 1 ELSE 0)]

\* Lines 440-501 for slot e; the call on f fails, a released handle reads as ub.
DestroyEffect(e, f, ub) ==
  /\ ep[e].created = "ok"
  /\ ep[e].destroys < MaxDestroyCalls
  /\ \E after \in {DestroyOutcome(ep[e], f, ub)} :
       /\ ep' = [ep EXCEPT ![e] = after]
       /\ topics' = TopicsAfterDestroy(topics, ep[e], after)
       /\ topic_objects' = TopicObjectsAfter(topic_objects, topics')

\* rmw_destroy_service on slot e as one step of a single application thread.
rmw_destroy_service(e, f, ub) ==
  /\ DestroyEffect(e, f, ub)
  /\ UNCHANGED <<qos, lockVars, takeVars, cbVars>>

-----------------------------------------------------------------------------
(* Correlation data: sequence numbers, identities, timestamps *)

\* Bits in each half of a sequence number: 32 in the code (int32_t sn_high,
\* uint32_t sn_low, int64_t sequence_number), scaled down to TLC's integers.
HalfBits == 6

RECURSIVE Pow2(_)
Pow2(n) == IF n = 0 THEN 1 ELSE 2 * Pow2(n - 1)

Half == Pow2(HalfBits)    \* 2^32 in the code
Full == Half * Half       \* 2^64 in the code

\* Two's complement: the signed reading of an m-valued unsigned integer.
ToSigned(u, m) == IF u >= m \div 2 THEN u - m ELSE u

RECURSIVE BitOrU(_, _)
BitOrU(a, b) ==
  IF a = 0 THEN b
  ELSE IF b = 0 THEN a
  ELSE (IF a % 2 = 1 \/ b % 2 = 1 THEN 1 ELSE 0) + 2 * BitOrU(a \div 2, b \div 2)

\* x | y on int64_t operands.
BitOr64(x, y) == ToSigned(BitOrU(x % Full, y % Full), Full)

\* ((int64_t)x) << 32, with the two's complement result every build produces.
Shl64(x) == ToSigned((x * Half) % Full, Full)

\* Line 724 with sn_low declared int32_t: the low half is sign-extended.
SequenceNumberSignedLow(sn_high, sn_low) ==
  BitOr64(Shl64(sn_high), ToSigned(sn_low, Half))

\* Line 724 with the two halves in each other's place.
SequenceNumberSwappedHalves(sn_high, sn_low) ==
  BitOr64(Shl64(sn_low), sn_high)

\* Line 724: ((int64_t)sn_high) << 32 | sn_low, sn_low an uint32_t.
SequenceNumberFromHalves(sn_high, sn_low) ==
  BitOr64(Shl64(sn_high), sn_low)

\* serialize_response_basic / the client's request encoder: the 32/32 split of a
\* sequence number (signed high half, unsigned low half).
SplitHigh(n) == (n - (n % Half)) \div Half
SplitLow(n) == n % Half

\* ros_sn_to_dds_sn and dds_sn_to_ros_sn: the two halves of the 64-bit value
\* change places (the transport keeps the high half first).
SwapHalves(u) == (u % Half) * Half + (u \div Half)
ros_sn_to_dds_sn(n) == SwapHalves(n % Full)
dds_sn_to_ros_sn(u) == ToSigned(SwapHalves(u), Full)

\* RMW_GID_STORAGE_SIZE, the length of writer_guid and of client_guid[16].
GidSize == 16

\* ros_guid_to_dds_guid and dds_guid_to_ros_guid: int8_t bytes against uint8_t
\* bytes of the same bit pattern.
ros_guid_to_dds_guid(g) == [i \in 1..GidSize |-> g[i] % 256]
dds_guid_to_ros_guid(g) == [i \in 1..GidSize |-> ToSigned(g[i], 256)]

ZeroGuid == [i \in 1..GidSize |-> 0]

\* Caller identities (int8_t[16]): all zero, and one with negative bytes.
ClientGuids == { ZeroGuid, [i \in 1..GidSize |-> i - 9] }

\* Sequence numbers a caller assigns: small ones, the boundaries of the low
\* half (bit 31 set, all ones, carry into the high half), negative ones and
\* the extremes of int64_t.
SeqNums ==
  { 0, 1, 42, Half \div 2, Half - 1, Half, -1, -Half, Full \div 2 - 1, -(Full \div 2) }

\* Line 719: nanoseconds in a second.
NsPerSec == 1000000000

\* dds_Time_t values of the samples.
SendTimes == { [sec |-> 0, nanosec |-> 7], [sec |-> 1, nanosec |-> 0] }
ReceiveTime == [sec |-> 1, nanosec |-> 9]

\* Lines 718-723: sec * 1000000000 + nanosec.
Nanoseconds(t) == t.sec * NsPerSec + t.nanosec

Payloads == {"a", "b"}

\* A request as its client sent it.
Requests ==
  [ guid : ClientGuids, sn : SeqNums, payload : Payloads, sent : SendTimes ]

NoRequest == [ guid |-> ZeroGuid, sn |-> 0, payload |-> "none", sent |-> [sec |-> 0, nanosec |-> 0] ]

\* The sample the request reader hands out for request q under the basic
\* variant: identity and split sequence number travel inside the body.
RequestSampleBasic(q) ==
  [ body |-> [ sn_high |-> SplitHigh(q.sn), sn_low |-> SplitLow(q.sn),
               client_guid |-> q.guid, payload |-> q.payload ],
    source_timestamp |-> q.sent,
    reception_timestamp |-> ReceiveTime ]

\* The same under the enhanced variant: they travel in dds_SampleInfoEx.
RequestSampleEnhanced(q) ==
  [ body |-> [ payload |-> q.payload ],
    seq |-> ros_sn_to_dds_sn(q.sn),
    src_guid |-> ros_guid_to_dds_guid(q.guid),
    source_timestamp |-> q.sent,
    reception_timestamp |-> ReceiveTime ]

-----------------------------------------------------------------------------
(* rmw_take_request *)

\* Number of samples the request reader buffers.
MaxUnread == 2

ZeroHeader ==
  [ writer_guid |-> ZeroGuid, sequence_number |-> 0,
    source_timestamp |-> 0, received_timestamp |-> 0 ]

NoCall ==
  [ op |-> "none", path |-> "none", rawTake |-> FALSE, loanReturns |-> 0,
    seqsCreated |-> 0, seqsDeleted |-> 0, q |-> NoRequest,
    bufAllocs |-> 0, bufFrees |-> 0, written |-> "none", envelope |-> "none",
    writes |-> 0,           \* samples the call handed to the response writer
    variant |-> "none",     \* the branch of line 660 or 842 the call ran
    used |-> {} ]           \* the branches all calls so far ran

\* What the environment decides in one rmw_take_request call: whether the
\* handle passed in lacks its ServiceInfo or its reader (621-631), which
\* sequence allocation fails (639-658), what the transport take returns, whether the
\* sample is valid, whether dds_DataSeq_get yields it, whether the type support
\* decodes it (and whether a failed decode has written to ros_request), and the
\* request the sample holds.
TakeInputs(n) ==
  LET base == [ alloc |-> "ok", rc |-> "OK", valid |-> TRUE, ptr |-> "ok",
                dec |-> TRUE, partial |-> FALSE, q |-> NoRequest ]
  IN  { [base EXCEPT !.alloc = a] :
          a \in {"service_info", "request_reader", "data_values", "sample_infos",
                 "sample_sizes"} }
      \cup (IF n = 0
              THEN { [base EXCEPT !.rc = "NO_DATA"] }
              ELSE { [base EXCEPT !.rc = "ERROR"],
                     [base EXCEPT !.valid = FALSE],
                     [base EXCEPT !.ptr = "null"] }
                   \cup { [base EXCEPT !.dec = FALSE, !.partial = p] : p \in BOOLEAN }
                   \cup { [base EXCEPT !.q = q] : q \in Requests })

\* The four lines every exit after the take repeats (666-669, 675-678, ...):
\* dds_DataReader_raw_return_loan without the loan being returned.
CleanupWithoutLoan(r) ==
  [r EXCEPT !.seqsDeleted = @ + 3]

\* The four lines every exit after the take repeats (666-669, 675-678, 686-689,
\* 711-714, 728-731 and 738-741, 747-750, 758-761, 781-784, 798-801):
\* dds_DataReader_raw_return_loan, then the three local sequences are deleted.
Cleanup(r) ==
  [r EXCEPT !.loanReturns = @ + 1, !.seqsDeleted = @ + 3]

\* A no-data result reported as a failed take.
OnNoDataAsError(r) ==
  [Cleanup(r) EXCEPT !.ret = "ERROR", !.path = "no_data"]

\* 665-671, 737-743: dds_RETCODE_NO_DATA.
OnNoData(r) ==
  [Cleanup(r) EXCEPT !.ret = "OK", !.path = "no_data"]

\* 673-680, 745-752: any other return code than dds_RETCODE_OK.
OnTakeError(r) ==
  [Cleanup(r) EXCEPT !.ret = "ERROR", !.path = "take_error"]

\* 685-691, 757-763: dds_DataSeq_get returned nullptr.
OnNullSample(r) ==
  [Cleanup(r) EXCEPT !.ret = "ERROR", !.path = "null_sample"]

\* A decode failure met after the receipt timestamp was copied to the envelope.
OnDecodeErrorAfterTimestamp(r, in) ==
  [Cleanup(r) EXCEPT !.ret = "ERROR", !.path = "decode_error",
                     !.request = IF in.partial THEN "partial" ELSE @,
                     !.header.received_timestamp = Nanoseconds(ReceiveTime)]

\* 709-716, 779-786: the type support could not decode the sample.
OnDecodeError(r, in) ==
  [Cleanup(r) EXCEPT !.ret = "ERROR", !.path = "decode_error",
                     !.request = IF in.partial THEN "partial" ELSE @]

\* 804-805, reached by a valid sample and by an invalid one alike.
Finish(r, path) ==
  [r EXCEPT !.taken = TRUE, !.ret = "OK", !.path = path]

\* 660-731: the basic branch.
TakeBasic(r0, in) ==
  LET smp == RequestSampleBasic(in.q)
      r == [r0 EXCEPT !.variant = "basic"]
  IN
  IF in.rc = "NO_DATA" THEN OnNoData(r)
  ELSE IF in.rc # "OK" THEN OnTakeError(r)
  ELSE IF in.valid
    THEN IF in.ptr = "null" THEN OnNullSample(r)
         ELSE IF ~in.dec THEN OnDecodeError(r, in)
         ELSE \* 698-707 deserialize_request_basic, 718-725
              Finish(Cleanup(
                [r EXCEPT !.request = smp.body.payload,
                          !.header =
                            [ source_timestamp |-> Nanoseconds(smp.source_timestamp),
                              received_timestamp |-> Nanoseconds(smp.reception_timestamp),
                              sequence_number |->
                                SequenceNumberFromHalves(smp.body.sn_high, smp.body.sn_low),
                              writer_guid |-> smp.body.client_guid ]]), "valid")
    ELSE Finish(Cleanup(r), "invalid_sample")   \* 728-731

\* 732-802: the enhanced branch.
TakeEnhanced(r0, in) ==
  LET smp == RequestSampleEnhanced(in.q)
      r == [r0 EXCEPT !.variant = "enhanced"]
  IN
  IF in.rc = "NO_DATA" THEN OnNoData(r)
  ELSE IF in.rc # "OK" THEN OnTakeError(r)
  ELSE IF in.valid
    THEN IF in.ptr = "null" THEN OnNullSample(r)
         ELSE IF ~in.dec THEN OnDecodeError(r, in)
         ELSE \* 768-769, 771-777 deserialize_request_enhanced, 788-795
              Finish(Cleanup(
                [r EXCEPT !.request = smp.body.payload,
                          !.header =
                            [ source_timestamp |-> Nanoseconds(smp.source_timestamp),
                              received_timestamp |-> Nanoseconds(smp.reception_timestamp),
                              sequence_number |-> dds_sn_to_ros_sn(smp.seq),
                              writer_guid |-> dds_guid_to_ros_guid(smp.src_guid) ]]), "valid")
    ELSE Finish(Cleanup(r), "invalid_sample")   \* 798-801

\* rmw_take_request from line 619 on, for a service whose data, reader and type
\* support are non-null: h and req are the caller's request_header and
\* ros_request as passed in.
TakeOutcome(basic, h, req, in) ==
  LET start == [ ret |-> "none", taken |-> FALSE,       \* 619 *taken = false
                 header |-> h, request |-> req, path |-> "none",
                 rawTake |-> FALSE, loanReturns |-> 0,
                 seqsCreated |-> 0, seqsDeleted |-> 0, variant |-> "none" ]
      failed(path, made) ==
        [start EXCEPT !.ret = "ERROR", !.path = path,
                      !.seqsCreated = made, !.seqsDeleted = made]
      took == [start EXCEPT !.seqsCreated = 3, !.rawTake = TRUE]
  IN
  IF in.alloc = "service_info" THEN failed("no_service_info", 0)       \* 621-625
  ELSE IF in.alloc = "request_reader" THEN failed("no_request_reader", 0)  \* 627-631
  ELSE IF in.alloc = "data_values" THEN failed("no_data_values", 0)    \* 639-643
  ELSE IF in.alloc = "sample_infos" THEN failed("no_sample_infos", 1)  \* 645-650
  ELSE IF in.alloc = "sample_sizes" THEN failed("no_sample_sizes", 2)  \* 652-658
  ELSE IF basic THEN TakeBasic(took, in)                               \* 660
  ELSE TakeEnhanced(took, in)

rmw_take_request(in) ==
  \E r \in {TakeOutcome(service_mapping_basic, header, request, in)} :
      /\ header' = r.header
      /\ request' = r.request
      /\ taken' = r.taken
      /\ ret' = r.ret
      /\ unread' = IF r.rawTake /\ in.rc = "OK" THEN unread - 1 ELSE unread
      \* the reader hands out its oldest sample first
      /\ unreported' = IF unreported > unread' THEN unread' ELSE unreported
      /\ call' = [ NoCall EXCEPT !.op = "take", !.path = r.path, !.rawTake = r.rawTake,
                                 !.loanReturns = r.loanReturns,
                                 !.seqsCreated = r.seqsCreated,
                                 !.seqsDeleted = r.seqsDeleted,
                                 !.q = IF r.path = "valid" THEN in.q ELSE NoRequest,
                                 !.variant = r.variant,
                                 !.used = call.used \cup ({r.variant} \ {"none"}) ]
      /\ UNCHANGED <<qos, service_mapping_basic, lifeVars, cbVars>>

\* The transport stores one more sample in the request reader and, when the
\* installed listener's mask holds dds_DATA_AVAILABLE_STATUS, owes the listener
\* one on_data_available call.
Arrive ==
  /\ unread < MaxUnread
  /\ unread' = unread + 1
  /\ unreported' = unreported + 1
  /\ dds' = IF listening THEN [dds EXCEPT !.pending = @ + 1] ELSE dds
  /\ UNCHANGED <<qos, service_mapping_basic, header, request, taken, ret, call, lifeVars,
                 callback, user_data, listening, mutex, app>>

-----------------------------------------------------------------------------
(* rmw_send_response *)

\* What the environment decides in one rmw_send_response call: whether the
\* encode buffer is allocated, whether the payload serializes, whether the
\* writer accepts the sample.
SendInputs ==
  { [alloc |-> TRUE, ser |-> TRUE, write |-> TRUE],
    [alloc |-> FALSE, ser |-> TRUE, write |-> TRUE],
    [alloc |-> TRUE, ser |-> FALSE, write |-> TRUE],
    [alloc |-> TRUE, ser |-> TRUE, write |-> FALSE] }

\* 842-875: the basic branch. serialize_response_basic puts the split sequence
\* number and the identity into the body.
SendBasic(id, payload, in) ==
  LET none == [ ret |-> "ERROR", path |-> "no_buffer", bufAllocs |-> 0, bufFrees |-> 0,
                written |-> "none", writes |-> 0, variant |-> "basic" ]
      sample == [ body |-> [ sn_high |-> SplitHigh(id.sequence_number),
                             sn_low |-> SplitLow(id.sequence_number),
                             client_guid |-> id.writer_guid,
                             payload |-> payload ] ]
  IN
  IF ~in.alloc THEN none                                               \* 850-852
  ELSE IF ~in.ser
    THEN [none EXCEPT !.path = "serialize_error", !.bufAllocs = 1, !.bufFrees = 1]
  ELSE IF ~in.write
    THEN [none EXCEPT !.path = "write_error", !.bufAllocs = 1, !.bufFrees = 1]
  ELSE [none EXCEPT !.ret = "OK", !.path = "sent", !.bufAllocs = 1, !.bufFrees = 1,
                    !.written = sample, !.writes = 1]

\* The enhanced branch without the free(dds_response) of line 914: a refused
\* write returns with the encode buffer still allocated.
SendEnhancedLeaksOnWriteError(id, payload, in) ==
  LET none == [ ret |-> "ERROR", path |-> "no_buffer", bufAllocs |-> 0, bufFrees |-> 0,
                written |-> "none", writes |-> 0, variant |-> "enhanced" ]
      sample == [ body |-> [ payload |-> payload ],
                  seq |-> ros_sn_to_dds_sn(id.sequence_number),
                  src_guid |-> ros_guid_to_dds_guid(id.writer_guid) ]
  IN
  IF ~in.alloc THEN none
  ELSE IF ~in.ser
    THEN [none EXCEPT !.path = "serialize_error", !.bufAllocs = 1, !.bufFrees = 1]
  ELSE IF ~in.write
    THEN [none EXCEPT !.path = "write_error", !.bufAllocs = 1, !.bufFrees = 0]
  ELSE [none EXCEPT !.ret = "OK", !.path = "sent", !.bufAllocs = 1, !.bufFrees = 1,
                    !.written = sample, !.writes = 1]

\* 876-918: the enhanced branch. The body holds the payload only; sequence
\* number and identity go into the dds_SampleInfoEx of the written sample.
SendEnhanced(id, payload, in) ==
  LET none == [ ret |-> "ERROR", path |-> "no_buffer", bufAllocs |-> 0, bufFrees |-> 0,
                written |-> "none", writes |-> 0, variant |-> "enhanced" ]
      sample == [ body |-> [ payload |-> payload ],
                  seq |-> ros_sn_to_dds_sn(id.sequence_number),           \* 905
                  src_guid |-> ros_guid_to_dds_guid(id.writer_guid) ]     \* 906-908
  IN
  IF ~in.alloc THEN none                                               \* 884-887
  ELSE IF ~in.ser
    THEN [none EXCEPT !.path = "serialize_error", !.bufAllocs = 1, !.bufFrees = 1]
  ELSE IF ~in.write
    THEN [none EXCEPT !.path = "write_error", !.bufAllocs = 1, !.bufFrees = 1]
  ELSE [none EXCEPT !.ret = "OK", !.path = "sent", !.bufAllocs = 1, !.bufFrees = 1,
                    !.written = sample, !.writes = 1]

\* A send that encodes under the basic variant whatever the context says.
SendOutcomeBasicOnly(basic, id, payload, in) == SendBasic(id, payload, in)

\* 842, 876: the branch on service_info->ctx->service_mapping_basic.
SendOutcome(basic, id, payload, in) ==
  IF basic THEN SendBasic(id, payload, in) ELSE SendEnhanced(id, payload, in)

\* The rmw_request_id_t inside the caller's rmw_service_info_t.
RequestId(h) ==
  [ writer_guid |-> h.writer_guid, sequence_number |-> h.sequence_number ]

\* rmw_send_response, called with the request id of the header the last take
\* filled and a response payload.
rmw_send_response(payload, in) ==
  \E id \in {RequestId(header)} :
  \E r \in {SendOutcome(service_mapping_basic, id, payload, in)} :
      /\ ret' = r.ret
      /\ call' = [ NoCall EXCEPT !.op = "send", !.path = r.path,
                                 !.bufAllocs = r.bufAllocs, !.bufFrees = r.bufFrees,
                                 !.written = r.written, !.writes = r.writes,
                                 !.envelope = id,
                                 !.variant = r.variant,
                                 !.used = call.used \cup {r.variant} ]
      /\ UNCHANGED <<qos, service_mapping_basic, unread, unreported, header, request, taken,
                     lifeVars, cbVars>>

\* How the client that receives a written response reads its correlation data
\* back: from the body under the basic variant, from the sample info under the
\* enhanced one.
ResponseId(basic, w) ==
  IF basic
    THEN [ writer_guid |-> w.body.client_guid,
           sequence_number |-> SequenceNumberFromHalves(w.body.sn_high, w.body.sn_low) ]
    ELSE [ writer_guid |-> dds_guid_to_ros_guid(w.src_guid),
           sequence_number |-> dds_sn_to_ros_sn(w.seq) ]

-----------------------------------------------------------------------------
(* rmw_service_set_on_new_request_callback and request_listener.on_data_available *)

Callbacks == {"cb1", "cb2"}
UserData == {"u1", "u2"}

\* ServiceInfo::count_unread(): the samples of the request reader not yet taken.
count_unread == unread

NoInvocation == [ cb |-> "null", ud |-> "null", count |-> 0 ]

\* old_cb and old_ud hold, while a call runs, the callback and user data that
\* were stored when it took the mutex.
AppIdle ==
  [ pc |-> "idle", cb |-> "null", ud |-> "null", unread_count |-> 0, dds_rc |-> "none",
    calls |-> 0, inv |-> NoInvocation, ddsCalls |-> 0,
    old_cb |-> "null", old_ud |-> "null" ]

DdsIdle == [ pc |-> "idle", pending |-> 0, calls |-> 0, inv |-> NoInvocation ]

\* 941: the call starts by taking event_callback_data.mutex. cb and ud are the
\* callback and user_data arguments; ddsCalls remembers how many invocations
\* the listener had made when the call started.
SetCallbackLock(cb, ud) ==
  /\ app.pc = "idle"
  /\ mutex = "free"
  /\ mutex' = "app"
  /\ app' = [ AppIdle EXCEPT !.pc = "locked", !.cb = cb, !.ud = ud,
                             !.ddsCalls = dds.calls,
                             !.old_cb = callback, !.old_ud = user_data ]
  /\ UNCHANGED <<qos, callback, user_data, listening, dds, takeVars, lifeVars>>

\* 945-946: a non-null callback: size_t unread_count = count_unread().
SetCallbackCount ==
  /\ app.pc = "locked"
  /\ app.cb # "null"
  /\ app' = [app EXCEPT !.pc = "counted", !.unread_count = count_unread]
  /\ UNCHANGED <<qos, callback, user_data, listening, mutex, dds, takeVars, lifeVars>>

\* 947-949 calling with event_callback_data.user_data, which line 952 has not
\* set yet, instead of the user_data argument.
SetCallbackInvokeStored ==
  /\ app.pc = "counted"
  /\ app' = IF 0 < app.unread_count
              THEN [app EXCEPT !.pc = "invoked", !.calls = @ + 1,
                               !.inv = [ cb |-> app.cb, ud |-> user_data,
                                         count |-> app.unread_count ]]
              ELSE [app EXCEPT !.pc = "invoked"]
  /\ unreported' = IF 0 < app.unread_count THEN 0 ELSE unreported
  /\ UNCHANGED <<qos, callback, user_data, listening, mutex, dds, lifeVars,
                 service_mapping_basic, unread, header, request, taken, ret, call>>

\* 947-949: if (0 < unread_count) callback(user_data, unread_count), the
\* arguments of the call, not the stored ones.
SetCallbackInvoke ==
  /\ app.pc = "counted"
  /\ app' = IF 0 < app.unread_count
              THEN [app EXCEPT !.pc = "invoked", !.calls = @ + 1,
                               !.inv = [ cb |-> app.cb, ud |-> app.ud,
                                         count |-> app.unread_count ]]
              ELSE [app EXCEPT !.pc = "invoked"]
  /\ unreported' = IF 0 < app.unread_count THEN 0 ELSE unreported
  /\ UNCHANGED <<qos, callback, user_data, listening, mutex, dds, lifeVars,
                 service_mapping_basic, unread, header, request, taken, ret, call>>

\* 951-952: the callback and its user data are stored.
SetCallbackStore ==
  /\ app.pc = "invoked"
  /\ callback' = app.cb
  /\ user_data' = app.ud
  /\ app' = [app EXCEPT !.pc = "stored"]
  /\ UNCHANGED <<qos, listening, mutex, dds, takeVars, lifeVars>>

\* 953-954: dds_DataReader_set_listener with dds_DATA_AVAILABLE_STATUS added to
\* the mask; the transport may refuse.
SetCallbackListen(ok) ==
  /\ app.pc = "stored"
  /\ listening' = IF ok THEN TRUE ELSE listening
  /\ app' = [app EXCEPT !.pc = "returning", !.dds_rc = IF ok THEN "OK" ELSE "ERROR"]
  /\ UNCHANGED <<qos, callback, user_data, mutex, dds, takeVars, lifeVars>>

\* 955-959 without lines 956-957: clearing only takes the status out of the mask.
SetCallbackClearMaskOnly ==
  /\ app.pc = "locked"
  /\ app.cb = "null"
  /\ app' = [app EXCEPT !.pc = "cleared"]
  /\ UNCHANGED <<qos, callback, user_data, listening, mutex, dds, takeVars, lifeVars>>

\* 955-957: a null callback: the stored callback and user data are cleared.
SetCallbackClear ==
  /\ app.pc = "locked"
  /\ app.cb = "null"
  /\ callback' = "null"
  /\ user_data' = "null"
  /\ app' = [app EXCEPT !.pc = "cleared"]
  /\ UNCHANGED <<qos, listening, mutex, dds, takeVars, lifeVars>>

\* 958-959: dds_DataReader_set_listener with dds_DATA_AVAILABLE_STATUS removed
\* from the mask; the transport may refuse.
SetCallbackMute(ok) ==
  /\ app.pc = "cleared"
  /\ listening' = IF ok THEN FALSE ELSE listening
  /\ app' = [app EXCEPT !.pc = "returning", !.dds_rc = IF ok THEN "OK" ELSE "ERROR"]
  /\ UNCHANGED <<qos, callback, user_data, mutex, dds, takeVars, lifeVars>>

\* 962: return check_dds_ret_code(dds_rc); the lock guard releases the mutex.
SetCallbackReturn ==
  /\ app.pc = "returning"
  /\ mutex' = "free"
  /\ ret' = app.dds_rc
  /\ app' = [app EXCEPT !.pc = "idle", !.old_cb = "null", !.old_ud = "null"]
  /\ UNCHANGED <<qos, callback, user_data, listening, dds, lifeVars,
                 service_mapping_basic, unread, unreported, header, request, taken, call>>

\* An on_data_available that does not take event_callback_data.mutex.
ListenerLockUnguarded ==
  /\ dds.pc = "idle"
  /\ dds.pending > 0
  /\ dds' = [dds EXCEPT !.pc = "locked", !.pending = @ - 1]
  /\ UNCHANGED <<qos, callback, user_data, listening, mutex, app, takeVars, lifeVars>>

\* 329-332: the transport thread makes a delivery it owes: on_data_available
\* starts and takes event_callback_data.mutex.
ListenerLock ==
  /\ dds.pc = "idle"
  /\ dds.pending > 0
  /\ mutex = "free"
  /\ mutex' = "dds"
  /\ dds' = [dds EXCEPT !.pc = "locked", !.pending = @ - 1]
  /\ UNCHANGED <<qos, callback, user_data, listening, app, takeVars, lifeVars>>

\* 333-335 passing on the unread count that the last registration read instead
\* of calling count_unread().
ListenerDispatchCachedCount ==
  /\ dds.pc = "locked"
  /\ dds' = IF callback # "null"
              THEN [dds EXCEPT !.pc = "done", !.calls = @ + 1,
                               !.inv = [ cb |-> callback, ud |-> user_data,
                                         count |-> app.unread_count ]]
              ELSE [dds EXCEPT !.pc = "done"]
  /\ unreported' = IF callback # "null" THEN 0 ELSE unreported
  /\ UNCHANGED <<qos, callback, user_data, listening, mutex, app, lifeVars,
                 service_mapping_basic, unread, header, request, taken, ret, call>>

\* 333-335: if a callback is stored it is called with the stored user data and
\* count_unread().
ListenerDispatch ==
  /\ dds.pc = "locked"
  /\ dds' = IF callback # "null"
              THEN [dds EXCEPT !.pc = "done", !.calls = @ + 1,
                               !.inv = [ cb |-> callback, ud |-> user_data,
                                         count |-> count_unread ]]
              ELSE [dds EXCEPT !.pc = "done"]
  /\ unreported' = IF callback # "null" THEN 0 ELSE unreported
  /\ UNCHANGED <<qos, callback, user_data, listening, mutex, app, lifeVars,
                 service_mapping_basic, unread, header, request, taken, ret, call>>

\* 336 with the mutex released only after a callback was called: a return
\* that leaves it locked when line 333 found no callback stored.
ListenerUnlockAfterCallOnly ==
  /\ dds.pc = "done"
  /\ mutex' = IF callback # "null" THEN "free" ELSE mutex
  /\ dds' = [dds EXCEPT !.pc = "idle"]
  /\ UNCHANGED <<qos, callback, user_data, listening, app, takeVars, lifeVars>>

\* 336: the lock guard releases the mutex.
ListenerUnlock ==
  /\ dds.pc = "done"
  /\ mutex' = "free"
  /\ dds' = [dds EXCEPT !.pc = "idle"]
  /\ UNCHANGED <<qos, callback, user_data, listening, app, takeVars, lifeVars>>

-----------------------------------------------------------------------------
(* Application threads in rmw_create_service and rmw_destroy_service *)

\* Two application threads; each creates and destroys a service of its own.
Threads == {"t1", "t2"}

SlotOf(t) == IF t = "t1" THEN 1 ELSE 2

ThreadIdle == [ pc |-> "idle", op |-> "none", ret |-> "none" ]

NoThreads ==
  /\ endpoint_mutex = "free"
  /\ thread = [t \in Threads |-> ThreadIdle]

\* The failing steps followed while threads interleave: none, one that jumps
\* to the fail label, one that returns directly.
ThreadCreateSteps == {0, StepIndex("request_reader"), StepIndex("info_seq")}

\* The early returns of rmw_create_service under the lock that allocate nothing.
CreateEarlyReturns == {"type_name", "metastring"}

\* The failing teardown calls followed while threads interleave.
ThreadDestroyFails == {"none", "registration"}

\* The service whose requests, registration and deliveries are followed is the
\* one in slot 1; it is in use from its creation to its first destroy call.
TrafficOpen ==
  /\ ep[1].created = "ok"
  /\ ep[1].destroys = 0
  /\ thread["t1"].pc = "idle"

\* The request reader of that service and the ServiceInfo its listener reads.
ReaderLive1 == {"request_reader", "service_info"} \subseteq ep[1].live

\* 49-91: thread t calls rmw_create_service. The argument checks, the name
\* validation and the type support lookup return nullptr before the lock is
\* requested (valid = FALSE); otherwise the thread goes on to line 94.
CreateCall(t, valid) ==
  /\ thread[t].pc = "idle"
  /\ ep[SlotOf(t)].created = "no"
  /\ thread' = [thread EXCEPT ![t] =
                  IF valid THEN [ pc |-> "waiting", op |-> "create", ret |-> "none" ]
                           ELSE ThreadIdle]
  /\ UNCHANGED <<qos, topics, topic_objects, ep, endpoint_mutex, takeVars, cbVars>>

\* 433-446: thread t calls rmw_destroy_service on its handle, which it has not
\* released and on which no registration call is running. A handle of another
\* implementation returns before the lock is requested (valid = FALSE);
\* otherwise the thread goes on to line 448.
DestroyCall(t, valid) ==
  /\ thread[t].pc = "idle"
  /\ ep[SlotOf(t)].created = "ok"
  /\ ep[SlotOf(t)].destroys < MaxDestroyCalls
  /\ "rmw_service" \in ep[SlotOf(t)].live
  /\ SlotOf(t) = 1 => app.pc = "idle"
  /\ thread' = [thread EXCEPT ![t] =
                  IF valid THEN [ pc |-> "waiting", op |-> "destroy", ret |-> "none" ]
                           ELSE ThreadIdle]
  /\ UNCHANGED <<qos, topics, topic_objects, ep, endpoint_mutex, takeVars, cbVars>>

\* A lock request that does not wait for ctx->endpoint_mutex to be free: two
\* threads can be past line 94 together.
ThreadLockUnguarded(t) ==
  /\ thread[t].pc = "waiting"
  /\ endpoint_mutex' = t
  /\ thread' = [thread EXCEPT ![t].pc = "locked"]
  /\ UNCHANGED <<qos, topics, topic_objects, ep, takeVars, cbVars>>

\* 94, 448: std::lock_guard<std::mutex> guard(ctx->endpoint_mutex).
ThreadLock(t) ==
  /\ thread[t].pc = "waiting"
  /\ endpoint_mutex = "free"
  /\ endpoint_mutex' = t
  /\ thread' = [thread EXCEPT ![t].pc = "locked"]
  /\ UNCHANGED <<qos, topics, topic_objects, ep, takeVars, cbVars>>

\* 138-141, 153-156: an empty type name or metastring returns nullptr with
\* nothing allocated.
CreateEarlyReturn(t, why) ==
  /\ thread[t].pc = "locked"
  /\ thread[t].op = "create"
  /\ why \in CreateEarlyReturns
  /\ thread' = [thread EXCEPT ![t].pc = "returning", ![t].ret = "nullptr"]
  /\ UNCHANGED <<qos, topics, topic_objects, ep, endpoint_mutex, takeVars, cbVars>>

\* 157-428: the allocation section of rmw_create_service; step k fails.
CreateBody(t, k) ==
  /\ thread[t].pc = "locked"
  /\ thread[t].op = "create"
  /\ CreateEffect(SlotOf(t), k)
  /\ thread' = [thread EXCEPT ![t].pc = "returning",
                              ![t].ret = IF k = 0 THEN "service" ELSE "nullptr"]
  /\ UNCHANGED <<qos, endpoint_mutex, takeVars, cbVars>>

\* 450-501: the teardown section of rmw_destroy_service; the call on f fails.
\* The transport deletes the request reader only when none of its listener
\* calls is running.
DestroyBody(t, f) ==
  /\ thread[t].pc = "locked"
  /\ thread[t].op = "destroy"
  /\ SlotOf(t) = 1 => dds.pc = "idle"
  /\ DestroyEffect(SlotOf(t), f, "fault")
  /\ thread' = [thread EXCEPT ![t].pc = "returning", ![t].ret = ep'[SlotOf(t)].ret]
  /\ UNCHANGED <<qos, endpoint_mutex, takeVars, cbVars>>

\* A return that leaves ctx->endpoint_mutex locked when the call failed, as
\* explicit lock() / unlock() calls around the success path would.
ThreadReturnKeepsLockOnFailure(t) ==
  /\ thread[t].pc = "returning"
  /\ endpoint_mutex' = IF thread[t].ret \in {"service", "OK"} THEN "free" ELSE endpoint_mutex
  /\ thread' = [thread EXCEPT ![t] = ThreadIdle]
  /\ UNCHANGED <<qos, topics, topic_objects, ep, takeVars, cbVars>>

\* Every return after lines 94 and 448: the lock guard's destructor releases
\* ctx->endpoint_mutex.
ThreadReturn(t) ==
  /\ thread[t].pc = "returning"
  /\ endpoint_mutex' = "free"
  /\ thread' = [thread EXCEPT ![t] = ThreadIdle]
  /\ UNCHANGED <<qos, topics, topic_objects, ep, takeVars, cbVars>>

\* Where a thread stands before the lookup of topic n (188, 224) and after the
\* topic is attached.
BeforeTopic(n) == IF n = "request_topic" THEN "locked" ELSE "request_topic_held"

\* 188-190, 224-226: dds_DomainParticipant_lookup_topicdescription finds a
\* topic of that name if the participant holds one.
TopicLookup(t, n) ==
  /\ thread[t].op = "create"
  /\ thread[t].pc = BeforeTopic(n)
  /\ thread' = [thread EXCEPT ![t].pc =
                  IF topic_objects[n] > 0 THEN n \o "_found" ELSE n \o "_absent"]
  /\ UNCHANGED <<qos, topics, topic_objects, ep, endpoint_mutex, takeVars, cbVars>>

\* 191-204, 227-240: no topic was found: dds_DomainParticipant_create_topic
\* makes one, which the call holds.
TopicCreate(t, n) ==
  /\ thread[t].pc = n \o "_absent"
  /\ topics' = [topics EXCEPT ![n] = @ + 1]
  /\ topic_objects' = [topic_objects EXCEPT ![n] = @ + 1]
  /\ thread' = [thread EXCEPT ![t].pc = n \o "_created"]
  /\ UNCHANGED <<qos, ep, endpoint_mutex, takeVars, cbVars>>

\* 206-210, 242-246: dds_TopicQos_finalize of the created topic's QoS.
TopicQosFinalize(t, n) ==
  /\ thread[t].pc = n \o "_created"
  /\ thread' = [thread EXCEPT ![t].pc = n \o "_held"]
  /\ UNCHANGED <<qos, topics, topic_objects, ep, endpoint_mutex, takeVars, cbVars>>

\* 211-221, 247-257 attaching through the description the lookup returned,
\* without the reference that find_topic takes.
TopicFindNoReference(t, n) ==
  /\ thread[t].pc = n \o "_found"
  /\ thread' = [thread EXCEPT ![t].pc = n \o "_held"]
  /\ UNCHANGED <<qos, topics, topic_objects, ep, endpoint_mutex, takeVars, cbVars>>

\* 211-221, 247-257: a topic was found: dds_DomainParticipant_find_topic
\* attaches to it and the call holds one more reference on it.
TopicFind(t, n) ==
  /\ thread[t].pc = n \o "_found"
  /\ topics' = [topics EXCEPT ![n] = @ + 1]
  /\ thread' = [thread EXCEPT ![t].pc = n \o "_held"]
  /\ UNCHANGED <<qos, topic_objects, ep, endpoint_mutex, takeVars, cbVars>>

\* The steps that can fail next (0: the rest of the call succeeds) for a thread
\* standing at pc.
FailableAt(pc) ==
  IF pc = "locked" THEN 1..(StepIndex("request_topic") - 1)
  ELSE IF pc \in {"request_topic_absent", "request_topic_found"}
    THEN {StepIndex("request_topic")}
  ELSE IF pc = "request_topic_created" THEN {StepIndex("request_topic_qos")}
  ELSE IF pc \in {"response_topic_absent", "response_topic_found"}
    THEN {StepIndex("response_topic")}
  ELSE IF pc = "response_topic_created" THEN {StepIndex("response_topic_qos")}
  ELSE IF pc = "response_topic_held"
    THEN {0} \cup ((StepIndex("response_topic_qos") + 1)..NumSteps)
  ELSE {}

\* The rest of the call from where the thread stands: step k fails (k = 0: none
\* does). A fail label that runs gives back the topics the call holds
\* (407-413); the last reference given back deletes the topic.
CreateFinish(t, k) ==
  /\ thread[t].op = "create"
  /\ k \in FailableAt(thread[t].pc)
  /\ ep' = [ep EXCEPT ![SlotOf(t)] = CreateOutcome(k)]
  /\ topics' = [n \in TopicNames |->
                  topics[n] - (IF n \in Range(CreateReleases(k)) THEN 1 ELSE 0)]
  /\ topic_objects' = [n \in TopicNames |->
                         IF topics'[n] = 0 THEN 0 ELSE topic_objects[n]]
  /\ thread' = [thread EXCEPT ![t].pc = "returning",
                              ![t].ret = IF k = 0 THEN "service" ELSE "nullptr"]
  /\ UNCHANGED <<qos, endpoint_mutex, takeVars, cbVars>>

\* 929-939: the application calls rmw_service_set_on_new_request_callback on
\* the service in use; the call has not reached line 941 yet.
SetCallbackCall(cb, ud) ==
  /\ TrafficOpen
  /\ app.pc = "idle"
  /\ app' = [ AppIdle EXCEPT !.pc = "called", !.cb = cb, !.ud = ud ]
  /\ UNCHANGED <<qos, callback, user_data, listening, mutex, dds, takeVars, lifeVars>>

\* 941: std::lock_guard<std::mutex> guard(event_callback_data.mutex).
SetCallbackAcquire ==
  /\ app.pc = "called"
  /\ mutex = "free"
  /\ mutex' = "app"
  /\ app' = [app EXCEPT !.pc = "locked", !.ddsCalls = dds.calls,
                         !.old_cb = callback, !.old_ud = user_data]
  /\ UNCHANGED <<qos, callback, user_data, listening, dds, takeVars, lifeVars>>

\* 329-331: the transport thread starts an on_data_available call it owes to
\* the request reader; the call has not reached line 332 yet.
ListenerEnter ==
  /\ ReaderLive1
  /\ dds.pc = "idle"
  /\ dds.pending > 0
  /\ dds' = [dds EXCEPT !.pc = "entered", !.pending = @ - 1]
  /\ UNCHANGED <<qos, callback, user_data, listening, mutex, app, takeVars, lifeVars>>

\* 332: std::lock_guard<std::mutex> guard(event_callback_data.mutex).
ListenerAcquire ==
  /\ dds.pc = "entered"
  /\ mutex = "free"
  /\ mutex' = "dds"
  /\ dds' = [dds EXCEPT !.pc = "locked"]
  /\ UNCHANGED <<qos, callback, user_data, listening, app, takeVars, lifeVars>>

-----------------------------------------------------------------------------
(* QoS read-back: rmw_service_response_publisher_get_actual_qos (505-552)  *)
(* and rmw_service_request_subscription_get_actual_qos (555-601)           *)

\* The fields of rmw_qos_profile_t that the read-back speaks of.
QosFields ==
  {"reliability", "durability", "deadline", "lifespan", "liveliness",
   "liveliness_lease_duration", "history", "depth"}

\* dds_Duration_t values: one second, and the infinite duration.
DdsDurations ==
  {[sec |-> 1, nanosec |-> 0], [sec |-> 2147483647, nanosec |-> 2147483647]}

\* What dds_DataReader_get_qos can hand back in a dds_DataReaderQos: the
\* policies the getter reads. A dds_DataReaderQos has no lifespan policy.
DataReaderQosValues ==
  { [reliability |-> "dds_RELIABLE_RELIABILITY_QOS",
     durability |-> "dds_VOLATILE_DURABILITY_QOS",
     deadline |-> [sec |-> 2147483647, nanosec |-> 2147483647],
     liveliness |-> [kind |-> "dds_AUTOMATIC_LIVELINESS_QOS",
                     lease_duration |-> [sec |-> 2147483647, nanosec |-> 2147483647]],
     history |-> [kind |-> "dds_KEEP_LAST_HISTORY_QOS", depth |-> 10]],
    [reliability |-> "dds_BEST_EFFORT_RELIABILITY_QOS",
     durability |-> "dds_TRANSIENT_LOCAL_DURABILITY_QOS",
     deadline |-> [sec |-> 1, nanosec |-> 0],
     liveliness |-> [kind |-> "dds_MANUAL_BY_TOPIC_LIVELINESS_QOS",
                     lease_duration |-> [sec |-> 1, nanosec |-> 0]],
     history |-> [kind |-> "dds_KEEP_ALL_HISTORY_QOS", depth |-> 1]],
    [reliability |-> "dds_RELIABLE_RELIABILITY_QOS",
     durability |-> "dds_TRANSIENT_LOCAL_DURABILITY_QOS",
     deadline |-> [sec |-> 1, nanosec |-> 0],
     liveliness |-> [kind |-> "dds_AUTOMATIC_LIVELINESS_QOS",
                     lease_duration |-> [sec |-> 2147483647, nanosec |-> 2147483647]],
     history |-> [kind |-> "dds_KEEP_LAST_HISTORY_QOS", depth |-> 1]] }

\* What dds_DataWriter_get_qos can hand back in a dds_DataWriterQos: the same
\* policies and a lifespan.
DataWriterQosValues ==
  { [reliability |-> q.reliability, durability |-> q.durability,
     deadline |-> q.deadline, lifespan |-> l, liveliness |-> q.liveliness,
     history |-> q.history] : q \in DataReaderQosValues, l \in DdsDurations }

\* The converters of rmw_gurumdds_cpp (qos.cpp): a DDS policy to its rmw value.
convert_reliability(policy) ==
  CASE policy = "dds_BEST_EFFORT_RELIABILITY_QOS" ->
         "RMW_QOS_POLICY_RELIABILITY_BEST_EFFORT"
    [] policy = "dds_RELIABLE_RELIABILITY_QOS" ->
         "RMW_QOS_POLICY_RELIABILITY_RELIABLE"
    [] OTHER -> "RMW_QOS_POLICY_RELIABILITY_UNKNOWN"

convert_durability(policy) ==
  CASE policy = "dds_VOLATILE_DURABILITY_QOS" ->
         "RMW_QOS_POLICY_DURABILITY_VOLATILE"
    [] policy = "dds_TRANSIENT_LOCAL_DURABILITY_QOS" ->
         "RMW_QOS_POLICY_DURABILITY_TRANSIENT_LOCAL"
    [] OTHER -> "RMW_QOS_POLICY_DURABILITY_UNKNOWN"

\* A dds_Duration_t {sec, nanosec} as an rmw_time_t {sec, nsec}.
convert_deadline(policy) == [sec |-> policy.sec, nsec |-> policy.nanosec]

convert_lifespan(policy) == [sec |-> policy.sec, nsec |-> policy.nanosec]

convert_liveliness(policy) ==
  CASE policy.kind = "dds_AUTOMATIC_LIVELINESS_QOS" ->
         "RMW_QOS_POLICY_LIVELINESS_AUTOMATIC"
    [] policy.kind = "dds_MANUAL_BY_TOPIC_LIVELINESS_QOS" ->
         "RMW_QOS_POLICY_LIVELINESS_MANUAL_BY_TOPIC"
    [] OTHER -> "RMW_QOS_POLICY_LIVELINESS_UNKNOWN"

convert_liveliness_lease_duration(policy) ==
  [sec |-> policy.lease_duration.sec, nsec |-> policy.lease_duration.nanosec]

convert_history(policy) ==
  CASE policy.kind = "dds_KEEP_LAST_HISTORY_QOS" ->
         "RMW_QOS_POLICY_HISTORY_KEEP_LAST"
    [] policy.kind = "dds_KEEP_ALL_HISTORY_QOS" ->
         "RMW_QOS_POLICY_HISTORY_KEEP_ALL"
    [] OTHER -> "RMW_QOS_POLICY_HISTORY_UNKNOWN"

\* The profiles a caller passes in before any read-back: rmw_qos_profile_unknown
\* and a profile the caller has filled in.
CallerProfiles ==
  { [reliability |-> "RMW_QOS_POLICY_RELIABILITY_UNKNOWN",
     durability |-> "RMW_QOS_POLICY_DURABILITY_UNKNOWN",
     deadline |-> [sec |-> 0, nsec |-> 0],
     lifespan |-> [sec |-> 0, nsec |-> 0],
     liveliness |-> "RMW_QOS_POLICY_LIVELINESS_UNKNOWN",
     liveliness_lease_duration |-> [sec |-> 0, nsec |-> 0],
     history |-> "RMW_QOS_POLICY_HISTORY_UNKNOWN",
     depth |-> 0],
    [reliability |-> "RMW_QOS_POLICY_RELIABILITY_RELIABLE",
     durability |-> "RMW_QOS_POLICY_DURABILITY_VOLATILE",
     deadline |-> [sec |-> 5, nsec |-> 0],
     lifespan |-> [sec |-> 5, nsec |-> 0],
     liveliness |-> "RMW_QOS_POLICY_LIVELINESS_AUTOMATIC",
     liveliness_lease_duration |-> [sec |-> 5, nsec |-> 0],
     history |-> "RMW_QOS_POLICY_HISTORY_KEEP_LAST",
     depth |-> 5] }

\* No read-back call has been made on the profile.
NoQosCall(profile) ==
  [ profile |-> profile, op |-> "none", ret |-> "none", path |-> "none",
    written |-> {}, read |-> [policies |-> "none"] ]

\* What a read-back call is made with: the handle, whether get_qos and the
\* finalize of the local dds_qos succeed.
QosInputs ==
  [ handle : {"ok", "service_info", "entity"}, get_qos : BOOLEAN,
    finalize : BOOLEAN ]

\* 536-543: the assignments of the response-writer getter.
WriterQosToProfile(profile, dds_qos) ==
  [ profile EXCEPT
      !.reliability = convert_reliability(dds_qos.reliability),
      !.durability = convert_durability(dds_qos.durability),
      !.deadline = convert_deadline(dds_qos.deadline),
      !.lifespan = convert_lifespan(dds_qos.lifespan),
      !.liveliness = convert_liveliness(dds_qos.liveliness),
      !.liveliness_lease_duration =
          convert_liveliness_lease_duration(dds_qos.liveliness),
      !.history = convert_history(dds_qos.history),
      !.depth = dds_qos.history.depth ]

\* A request-reader getter that resets the lifespan of the profile.
ReaderQosToProfileResetsLifespan(profile, dds_qos) ==
  [ profile EXCEPT
      !.reliability = convert_reliability(dds_qos.reliability),
      !.durability = convert_durability(dds_qos.durability),
      !.deadline = convert_deadline(dds_qos.deadline),
      !.lifespan = [sec |-> 0, nsec |-> 0],
      !.liveliness = convert_liveliness(dds_qos.liveliness),
      !.liveliness_lease_duration =
          convert_liveliness_lease_duration(dds_qos.liveliness),
      !.history = convert_history(dds_qos.history),
      !.depth = dds_qos.history.depth ]

\* 586-592: the assignments of the request-reader getter; none to
\* qos->lifespan.
ReaderQosToProfile(profile, dds_qos) ==
  [ profile EXCEPT
      !.reliability = convert_reliability(dds_qos.reliability),
      !.durability = convert_durability(dds_qos.durability),
      !.deadline = convert_deadline(dds_qos.deadline),
      !.liveliness = convert_liveliness(dds_qos.liveliness),
      !.liveliness_lease_duration =
          convert_liveliness_lease_duration(dds_qos.liveliness),
      !.history = convert_history(dds_qos.history),
      !.depth = dds_qos.history.depth ]

\* A return of RMW_RET_ERROR before the first assignment to *qos.
QosEarlyError(op, why) ==
  [ qos EXCEPT !.op = op, !.ret = "ERROR", !.path = why, !.written = {},
               !.read = [policies |-> "none"] ]

\* 505-552. The null checks on service->data (517-521) and on the writer
\* (523-527) and a failed dds_DataWriter_get_qos (529-534) return before
\* anything is written; a failed dds_DataWriterQos_finalize (545-549) returns
\* RMW_RET_ERROR with the profile written.
rmw_service_response_publisher_get_actual_qos(in, dds_qos) ==
  /\ qos' =
       IF in.handle = "service_info" THEN
         QosEarlyError("response", "no_service_info")
       ELSE IF in.handle = "entity" THEN
         QosEarlyError("response", "no_response_writer")
       ELSE IF ~in.get_qos THEN
         QosEarlyError("response", "get_qos")
       ELSE
         [ profile |-> WriterQosToProfile(qos.profile, dds_qos),
           op |-> "response",
           ret |-> IF in.finalize THEN "OK" ELSE "ERROR",
           path |-> IF in.finalize THEN "read" ELSE "finalize",
           written |-> QosFields,
           read |-> dds_qos ]
  /\ UNCHANGED <<lifeVars, takeVars, cbVars>>

\* 555-601. As the response getter, on the request reader: 567-571, 573-577,
\* 579-584 return before anything is written, 594-598 after.
rmw_service_request_subscription_get_actual_qos(in, dds_qos) ==
  /\ qos' =
       IF in.handle = "service_info" THEN
         QosEarlyError("request", "no_service_info")
       ELSE IF in.handle = "entity" THEN
         QosEarlyError("request", "no_request_reader")
       ELSE IF ~in.get_qos THEN
         QosEarlyError("request", "get_qos")
       ELSE
         [ profile |-> ReaderQosToProfile(qos.profile, dds_qos),
           op |-> "request",
           ret |-> IF in.finalize THEN "OK" ELSE "ERROR",
           path |-> IF in.finalize THEN "read" ELSE "finalize",
           written |-> QosFields \ {"lifespan"},
           read |-> dds_qos ]
  /\ UNCHANGED <<lifeVars, takeVars, cbVars>>

-----------------------------------------------------------------------------
(* Specifications *)

\* The caller holds a profile it has not yet passed to a read-back call.
QosUntouched == qos = NoQosCall(CHOOSE p \in CallerProfiles : p.depth = 0)

NoTraffic ==
  /\ service_mapping_basic = TRUE
  /\ unread = 0
  /\ unreported = 0
  /\ header = ZeroHeader
  /\ request = "blank"
  /\ taken = FALSE
  /\ ret = "none"
  /\ call = NoCall

InitLife ==
  /\ topics = [t \in TopicNames |-> 0]
  /\ topic_objects = [t \in TopicNames |-> 0]
  /\ ep = [e \in Services |-> NoService]
  /\ NoThreads

\* 306, 328: a new ServiceInfo holds no callback; rmw_create_service sets the
\* listener context but installs no listener.
NoCallback ==
  /\ callback = "null"
  /\ user_data = "null"
  /\ listening = FALSE
  /\ mutex = "free"
  /\ app = AppIdle
  /\ dds = DdsIdle

Init == InitLife /\ NoTraffic /\ NoCallback /\ QosUntouched

Next ==
  \/ \E e \in Services : \E k \in 0..NumSteps : rmw_create_service(e, k)
  \/ \E e \in Services : \E f \in DestroyFailPoints \cup {"none"} :
       \E ub \in ReleasedReads : rmw_destroy_service(e, f, ub)

Spec == Init /\ [][Next]_vars

\* One service, created successfully; either wire variant.
InitLive ==
  /\ topics = TopicsAfterCreate([t \in TopicNames |-> 0], 0)
  /\ topic_objects = TopicObjectsAfter([t \in TopicNames |-> 0], topics)
  /\ ep = [e \in Services |-> IF e = 1 THEN CreateOutcome(0) ELSE NoService]
  /\ NoThreads

InitTake ==
  /\ InitLive
  /\ service_mapping_basic \in BOOLEAN
  /\ unread = 0
  /\ unreported = 0
  /\ header = ZeroHeader
  /\ request = "blank"
  /\ taken = FALSE
  /\ ret = "none"
  /\ call = NoCall
  /\ NoCallback
  /\ QosUntouched

NextTake ==
  \/ Arrive
  \/ \E in \in TakeInputs(unread) : rmw_take_request(in)
  \/ \E p \in Payloads : \E in \in SendInputs : rmw_send_response(p, in)

SpecTake == InitTake /\ [][NextTake]_vars

InitCallback == InitLive /\ NoTraffic /\ NoCallback /\ QosUntouched

NextCallback ==
  \/ Arrive
  \/ \E cb \in Callbacks : \E ud \in UserData : SetCallbackLock(cb, ud)
  \/ SetCallbackLock("null", "null")
  \/ SetCallbackCount
  \/ SetCallbackInvoke
  \/ SetCallbackStore
  \/ \E ok \in BOOLEAN : SetCallbackListen(ok)
  \/ SetCallbackClear
  \/ \E ok \in BOOLEAN : SetCallbackMute(ok)
  \/ SetCallbackReturn
  \/ ListenerLock
  \/ ListenerDispatch
  \/ ListenerUnlock

SpecCallback == InitCallback /\ [][NextCallback]_vars

\* Number of on_data_available deliveries the transport makes or owes.
MaxDeliveries == 2

\* The request the client sends while notifications are followed.
NotifyRequest ==
  [ guid |-> ZeroGuid, sn |-> 42, payload |-> "a", sent |-> [sec |-> 0, nanosec |-> 7] ]

\* The takes the serving thread makes while notifications are followed: no
\* data on an empty reader, otherwise that request.
NotifyTakeInputs(n) ==
  { in \in TakeInputs(n) :
      /\ in.alloc = "ok" /\ in.valid /\ in.ptr = "ok" /\ in.dec
      /\ in.rc \in {"OK", "NO_DATA"}
      /\ in.rc = "OK" => in.q = NotifyRequest }

\* The callbacks the application registers, each with its own user data.
NotifyRegistrations == { <<"cb1", "u1">>, <<"cb2", "u2">> }

ArriveNotify ==
  /\ dds.calls + dds.pending < MaxDeliveries
  /\ Arrive

\* The steps of rmw_service_set_on_new_request_callback on the application
\* thread and of on_data_available on the transport thread.
NotifyGate ==
  \/ \E p \in NotifyRegistrations : SetCallbackLock(p[1], p[2])
  \/ SetCallbackLock("null", "null")
  \/ SetCallbackCount
  \/ SetCallbackInvoke
  \/ SetCallbackStore
  \/ \E ok \in BOOLEAN : SetCallbackListen(ok)
  \/ SetCallbackClear
  \/ \E ok \in BOOLEAN : SetCallbackMute(ok)
  \/ SetCallbackReturn
  \/ ListenerLock
  \/ ListenerDispatch
  \/ ListenerUnlock

\* Registration and deliveries interleaved with rmw_take_request calls of the
\* serving thread.
NextNotify ==
  \/ ArriveNotify
  \/ \E in \in NotifyTakeInputs(unread) : rmw_take_request(in)
  \/ NotifyGate

SpecNotify == InitCallback /\ [][NextNotify]_vars

\* The registration the application makes while threads interleave.
ThreadsRegistrations == { <<"cb1", "u1">>, <<"null", "null">> }

\* Requests reach the service in use; the transport makes one delivery.
ThreadsArrive ==
  /\ TrafficOpen
  /\ unread = 0
  /\ dds.calls + dds.pending = 0
  /\ Arrive

\* The steps of one application thread in create / destroy.
ThreadStep(t) ==
  \/ \E valid \in BOOLEAN : CreateCall(t, valid)
  \/ \E valid \in BOOLEAN : DestroyCall(t, valid)
  \/ ThreadLock(t)
  \/ \E why \in CreateEarlyReturns : CreateEarlyReturn(t, why)
  \/ \E k \in ThreadCreateSteps : CreateBody(t, k)
  \/ \E f \in ThreadDestroyFails : DestroyBody(t, f)
  \/ ThreadReturn(t)

\* What a thread does once it holds ctx->endpoint_mutex.
ThreadProgress(t) ==
  \/ \E why \in CreateEarlyReturns : CreateEarlyReturn(t, why)
  \/ \E k \in ThreadCreateSteps : CreateBody(t, k)
  \/ \E f \in ThreadDestroyFails : DestroyBody(t, f)
  \/ ThreadReturn(t)

\* What rmw_service_set_on_new_request_callback does once it holds
\* event_callback_data.mutex; the user callback it calls returns, and the
\* transport accepts the listener.
AppProgress ==
  \/ SetCallbackCount
  \/ SetCallbackInvoke
  \/ SetCallbackStore
  \/ SetCallbackListen(TRUE)
  \/ SetCallbackClear
  \/ SetCallbackMute(TRUE)
  \/ SetCallbackReturn

\* What on_data_available does once it holds event_callback_data.mutex.
DdsProgress ==
  \/ ListenerDispatch
  \/ ListenerUnlock

NextThreads ==
  \/ \E t \in Threads : ThreadStep(t)
  \/ ThreadsArrive
  \/ \E p \in ThreadsRegistrations : SetCallbackCall(p[1], p[2])
  \/ SetCallbackAcquire
  \/ AppProgress
  \/ ListenerEnter
  \/ ListenerAcquire
  \/ DdsProgress

\* Fair scheduling: a thread that can run does run, and a thread that
\* requests a mutex gets it if the mutex keeps becoming free.
FairThreads ==
  /\ \A t \in Threads : SF_vars(ThreadLock(t)) /\ WF_vars(ThreadProgress(t))
  /\ SF_vars(SetCallbackAcquire) /\ WF_vars(AppProgress)
  /\ SF_vars(ListenerAcquire) /\ WF_vars(DdsProgress)

SpecThreads == Init /\ [][NextThreads]_vars /\ FairThreads

\* Threads in rmw_create_service for services of one name, the topic lookups
\* and the topic creations followed call by call.
NextTopics ==
  \E t \in Threads :
    \/ \E valid \in BOOLEAN : CreateCall(t, valid)
    \/ ThreadLock(t)
    \/ \E why \in CreateEarlyReturns : CreateEarlyReturn(t, why)
    \/ \E n \in TopicNames : TopicLookup(t, n)
    \/ \E n \in TopicNames : TopicCreate(t, n)
    \/ \E n \in TopicNames : TopicQosFinalize(t, n)
    \/ \E n \in TopicNames : TopicFind(t, n)
    \/ \E k \in 0..NumSteps : CreateFinish(t, k)
    \/ ThreadReturn(t)

SpecTopics == Init /\ [][NextTopics]_vars

InitQos ==
  /\ InitLive
  /\ NoTraffic
  /\ NoCallback
  /\ \E profile \in CallerProfiles : qos = NoQosCall(profile)

NextQos ==
  \/ \E in \in QosInputs : \E dds_qos \in DataWriterQosValues :
       rmw_service_response_publisher_get_actual_qos(in, dds_qos)
  \/ \E in \in QosInputs : \E dds_qos \in DataReaderQosValues :
       rmw_service_request_subscription_get_actual_qos(in, dds_qos)

SpecQos == InitQos /\ [][NextQos]_vars

-----------------------------------------------------------------------------
(* Creation and teardown: the claims *)

CreateFailed(e) == ep[e].created \notin {"no", "ok"}

WriterLive(e) == "response_writer" \in ep[e].live

ReaderLive(e) == "request_reader" \in ep[e].live

\* C1: when rmw_create_service returns null, whatever step failed, every reader,
\* read condition, writer, topic, scratch sequence, endpoint record and service
\* handle the call allocated has been released and no discovery registration
\* exists. (As stated; the code breaks it.)
C1_RollbackComplete ==
  \A e \in Services : CreateFailed(e) => ep[e].live = {} /\ ep[e].reg = 0

\* C2: a rmw_destroy_service call on a handle that a previous call destroyed
\* successfully touches no released object, releases nothing again and returns
\* success. (As stated; the code breaks it.)
C2_DestroyIdempotent ==
  \A e \in Services :
    ep[e].afterOk > 0 => ~ep[e].uaf /\ ep[e].dangling = {} /\ ep[e].ret = "OK"

\* C4, as stated: between operations, whatever Create and Destroy calls were
\* made and whichever of them failed, the response writer and the request reader
\* of an endpoint are both live or both gone.
C4_BothOrNeither ==
  \A e \in Services : WriterLive(e) = ReaderLive(e)

\* C4, amended: the response writer and the request reader are both live or both
\* gone, except after a rmw_destroy_service call that returned an error, which
\* can leave the writer deleted and the reader live (never the reverse).
C4_BothOrNeitherUnlessDestroyFailed ==
  \A e \in Services :
    \/ WriterLive(e) = ReaderLive(e)
    \/ ep[e].ret = "ERROR" /\ ~WriterLive(e) /\ ReaderLive(e)

\* C4: a failed teardown has left an endpoint with its writer deleted and its
\* reader live.
C4_Witness ==
  \E e \in Services :
    /\ ep[e].ret = "ERROR"
    /\ "response_writer" \in ep[e].released
    /\ ReaderLive(e)

\* C5: when rmw_create_service returns a handle, the request reader, the read
\* condition and the response writer are live, the endpoint is registered with
\* discovery once, both type supports are released; and no failing step leaves
\* a registration behind (none runs after on_service_created).
C5_CreatePostcondition ==
  \A e \in Services :
    /\ (ep[e].created = "ok" /\ ep[e].destroys = 0) =>
         /\ {"request_reader", "read_condition", "response_writer",
             "service_info", "rmw_service"} \subseteq ep[e].live
         /\ ep[e].data = "service_info"
         /\ ep[e].reg = 1
         /\ {"request_typesupport", "response_typesupport"} \cap ep[e].live = {}
         /\ {"request_typesupport", "response_typesupport"} \subseteq ep[e].released
    /\ CreateFailed(e) => ep[e].reg = 0 /\ "registration" \notin ep[e].live

\* C5: both services were created, the second one attaching to the topics of
\* the first.
C5_Witness ==
  /\ \A e \in Services : ep[e].created = "ok" /\ ep[e].destroys = 0
  /\ \A t \in TopicNames : topics[t] = MaxServices

\* Position of resource r in the sequence of releases q.
ReleasePosition(q, r) == CHOOSE i \in 1..Len(q) : q[i] = r

\* A and B were both released by the rollback of slot e, and A was allocated
\* before B.
RolledBackInOrder(e, A, B) ==
  /\ CreateFailed(e)
  /\ A \in Range(ep[e].order) /\ B \in Range(ep[e].order)
  /\ StepIndex(A) < StepIndex(B)

ReleasedInAllocationOrder ==
  { <<"request_typesupport", "response_typesupport">>,
    <<"request_topic", "response_topic">>,
    <<"request_reader", "response_writer">>,
    <<"read_condition", "response_writer">> }

C13_NoSilentPartialTeardown ==
  \A e \in Services :
    /\ ep[e].ret = "OK" =>
         /\ {"response_writer", "read_condition", "request_reader"} \cap ep[e].live = {}
         /\ {"response_writer", "read_condition", "request_reader"} \subseteq ep[e].released
         /\ ep[e].reg = 0 /\ "registration" \notin ep[e].live
    /\ ep[e].ret = "ERROR" =>
         /\ {"service_info", "rmw_service", "service_name"} \subseteq ep[e].live
         /\ ep[e].data = "service_info"

\* C13: the discovery update failed after the writer, the read condition and the
\* reader were deleted: the call returned an error and kept record and handle.
C13_Witness ==
  \E e \in Services :
    /\ ep[e].ret = "ERROR"
    /\ ep[e].reg = 1
    /\ {"response_writer", "read_condition", "request_reader"} \subseteq ep[e].released
    /\ {"service_info", "rmw_service"} \subseteq ep[e].live

\* C16: a rmw_destroy_service call, whether it returns success or an error,
\* leaves every topic of the participant with the references it had and leaves
\* the endpoint's own two topic references in place.
C16_DestroyKeepsTopics ==
  [][ \A e \in Services :
        ep'[e].destroys = ep[e].destroys + 1 =>
          /\ topics' = topics
          /\ ep'[e].live \cap TopicNames = ep[e].live \cap TopicNames ]_vars

\* C16: every service was created and then destroyed successfully, and each
\* topic still carries one reference per service.
C16_Witness ==
  /\ \A e \in Services : ep[e].ret = "OK" /\ TopicNames \subseteq ep[e].live
  /\ \A t \in TopicNames : topics[t] = MaxServices

-----------------------------------------------------------------------------
(* Take and send: the claims *)

\* C3: a take that retrieves a sample whose validity flag is false returns
\* success with taken = false, under both wire variants. (As stated; the code
\* breaks it.)
C3_InvalidSampleNotTaken ==
  (call.op = "take" /\ call.path = "invalid_sample") => ret = "OK" /\ taken = FALSE

C10_LoanReturned ==
  (call.op = "take" /\ call.rawTake) =>
    /\ call.loanReturns = 1
    /\ call.seqsCreated = 3
    /\ call.seqsDeleted = 3

\* C10: an enhanced-variant take ended on a decode failure.
C10_Witness ==
  /\ call.op = "take" /\ call.path = "decode_error"
  /\ ~service_mapping_basic
  /\ ret = "ERROR"
  /\ call.loanReturns = 1

\* The name of the wire variant the context flag selects.
VariantOf(basic) == IF basic THEN "basic" ELSE "enhanced"

\* C14: the wire variant of the context never changes, and every take that
\* reaches the transport and every send runs the branch of that variant: the
\* branches all calls so far have run are never more than the one.
C14_VariantsNeverMixed ==
  [][ /\ service_mapping_basic' = service_mapping_basic
      /\ call'.used \subseteq {VariantOf(service_mapping_basic)}
      /\ call'.variant \in {"none", VariantOf(service_mapping_basic)} ]_vars

\* C14: under the enhanced variant a request was taken and a response to it was
\* written with its correlation data in the sample info.
C14_Witness ==
  /\ ~service_mapping_basic
  /\ header # ZeroHeader /\ request \in Payloads
  /\ call.op = "send" /\ call.path = "sent"
  /\ call.variant = "enhanced" /\ call.used = {"enhanced"}
  /\ call.written.seq = ros_sn_to_dds_sn(header.sequence_number)

\* C15: a basic-variant take of a request with sequence number N, whose body
\* carries N as high = floor(N / 2^32) and low = N mod 2^32, reports N, for
\* every N the clients assign (negative ones and ones with bit 31 of the low
\* half set included).
C15_SplitSequenceNumber ==
  (call.op = "take" /\ call.path = "valid" /\ service_mapping_basic) =>
    LET N == call.q.sn
        body == RequestSampleBasic(call.q).body
    IN  /\ body.sn_high = (N - (N % Half)) \div Half
        /\ body.sn_low = N % Half
        /\ body.sn_high \in -(Half \div 2) .. (Half \div 2 - 1)
        /\ body.sn_low \in 0 .. (Half - 1)
        /\ header.sequence_number = N

\* C15: a basic-variant take reported sequence number 42, decoded from
\* high = 0 and low = 42.
C15_Witness ==
  /\ call.op = "take" /\ call.path = "valid" /\ service_mapping_basic
  /\ call.q.sn = 42 /\ call.q.guid = ZeroGuid
  /\ RequestSampleBasic(call.q).body.sn_high = 0
  /\ RequestSampleBasic(call.q).body.sn_low = 42
  /\ header.sequence_number = 42

\* C17: a send that allocated its encode buffer has freed it exactly once when
\* it returns, whether serialization failed, the write failed or the response
\* went out; a send whose allocation failed frees nothing; and a send that
\* failed has published nothing. Under both variants.
C17_SendBufferReleased ==
  call.op = "send" =>
    /\ call.bufAllocs = (IF call.path = "no_buffer" THEN 0 ELSE 1)
    /\ call.bufFrees = call.bufAllocs
    /\ call.path \in {"no_buffer", "serialize_error", "write_error"} =>
         ret = "ERROR" /\ call.writes = 0
    /\ call.path = "sent" => ret = "OK" /\ call.writes = 1

\* C17: under the enhanced variant the writer refused the response and the send
\* returned an error with its buffer freed.
C17_Witness ==
  /\ call.op = "send" /\ call.path = "write_error"
  /\ ~service_mapping_basic
  /\ ret = "ERROR"
  /\ call.bufAllocs = 1 /\ call.bufFrees = 1

-----------------------------------------------------------------------------
(* The new-request callback: the claims *)

\* The application thread is in, or has last completed, a call with a non-null
\* callback that is past lines 947-949.
PastInvoke ==
  app.cb # "null" /\ app.pc \in {"invoked", "stored", "returning", "idle"}

\* C8: a call with a non-null callback that reads K > 0 unread samples has, from
\* line 949 to its return, invoked that callback exactly once, with the user
\* data and the count K of this call, and a call that reads K = 0 has invoked
\* nothing; no other invocation is made while the call runs.
C8_RegistrationInvokesOnce ==
  /\ PastInvoke =>
       IF app.unread_count > 0
         THEN /\ app.calls = 1
              /\ app.inv = [ cb |-> app.cb, ud |-> app.ud, count |-> app.unread_count ]
         ELSE app.calls = 0
  /\ app.pc # "idle" => dds.calls = app.ddsCalls

\* C8: a call replacing nothing registers cb2 on a reader holding MaxUnread
\* samples and is about to return.
C8_Witness ==
  /\ app.pc = "returning"
  /\ app.cb = "cb2" /\ app.ud = "u1"
  /\ app.unread_count = MaxUnread
  /\ app.calls = 1
  /\ callback = "cb2" /\ user_data = "u1"

\* The last call the application thread completed was one with a null callback.
Cleared ==
  app.pc = "idle" /\ app.cb = "null" /\ app.dds_rc # "none"

\* C9: once a call with a null callback has returned, and until the next call
\* starts, no on_data_available delivery invokes a callback.
C9_NoInvocationAfterClear ==
  [][ Cleared => (dds.calls)' = dds.calls ]_vars

\* C9: after a registration, a clearing call returned although the transport
\* refused to change the mask, and a delivery made since has run its check
\* without invoking anything.
C9_Witness ==
  /\ Cleared
  /\ app.dds_rc = "ERROR"
  /\ listening
  /\ callback = "null"
  /\ dds.pc = "done"
  /\ dds.calls = 0

\* The last call the application thread completed registered a callback and the
\* transport accepted the mask.
Registered ==
  app.pc = "idle" /\ app.cb # "null" /\ app.dds_rc = "OK"

\* C18: once a registering call has returned, every unread sample has been
\* reported by a callback invocation made after it arrived, or the transport
\* still owes the listener a delivery that will report it. (As stated; the code
\* breaks it.)
C18_NoLostNotification ==
  (Registered /\ unreported > 0) => (dds.pending > 0 \/ dds.pc = "locked")

\* C20: a delivery that reaches line 333 holds event_callback_data.mutex; if a
\* callback is stored it invokes that callback once, with the stored user data,
\* which the same registering call stored, and with the number of samples
\* unread at that moment; if none is stored it invokes nothing.
C20_DeliveryDispatch ==
  [][ (dds.pc = "locked" /\ dds'.pc = "done") =>
        /\ mutex = "dds"
        /\ IF callback # "null"
             THEN /\ dds'.calls = dds.calls + 1
                  /\ dds'.inv = [ cb |-> callback, ud |-> user_data, count |-> unread ]
                  /\ callback = app.cb /\ user_data = app.ud
             ELSE /\ dds'.calls = dds.calls
                  /\ dds'.inv = dds.inv ]_vars

\* C20: after a registration that read two unread samples and a take of one of
\* them, a delivery has invoked the stored callback with the one sample unread.
C20_Witness ==
  /\ dds.pc = "done"
  /\ dds.calls = 1
  /\ dds.inv = [ cb |-> callback, ud |-> user_data, count |-> 1 ]
  /\ callback = "cb2" /\ user_data = "u2"
  /\ app.unread_count = 2
  /\ call.op = "take" /\ call.path = "valid"

\* The paths of rmw_take_request that return RMW_RET_ERROR.
TakeErrorPaths ==
  { "no_service_info", "no_request_reader", "no_data_values", "no_sample_infos",
    "no_sample_sizes", "take_error", "null_sample", "decode_error" }

\* C27: a take that returns an error leaves taken false and the four fields of
\* the envelope as the caller passed them, under both variants; a take that
\* changes the envelope returned success for a valid sample.
C27_TakeErrorKeepsEnvelope ==
  [][ /\ (call'.op = "take" /\ ret' # "OK") =>
           (taken' = FALSE /\ header' = header /\ call'.path \in TakeErrorPaths)
      /\ (call'.op = "take" /\ call'.path \in TakeErrorPaths) => ret' = "ERROR"
      /\ header' # header =>
           (call'.op = "take" /\ ret' = "OK" /\ call'.path = "valid") ]_vars

\* C27: a take failed to decode its sample after an earlier take had filled
\* the envelope and set taken; the envelope still holds the earlier request.
C27_Witness ==
  /\ call.op = "take" /\ call.path = "decode_error"
  /\ ret = "ERROR" /\ taken = FALSE
  /\ header.received_timestamp = Nanoseconds(ReceiveTime)
  /\ header.sequence_number # 0

\* C25: a call whose dds_DataReader_set_listener fails returns an error and
\* leaves stored the callback and the user data that were stored when it
\* started. (As stated; the code breaks it.)
C25_FailedCallChangesNothing ==
  [][ (app.pc = "returning" /\ app'.pc = "idle" /\ app.dds_rc = "ERROR") =>
        /\ ret' = "ERROR"
        /\ callback' = app.old_cb
        /\ user_data' = app.old_ud ]_vars

\* The synchronous invocation of lines 947-949 is running: the call has read a
\* positive count and has not gone on to line 951.
AppInvoking == app.pc = "counted" /\ 0 < app.unread_count

\* The invocation of lines 333-335 is running: the delivery has the mutex, a
\* callback is stored and the delivery has not reached line 336.
DdsInvoking == dds.pc = "locked" /\ callback # "null"

\* C26: the invocation made inside the registration call and the invocation
\* made by a delivery are never running together, whoever invokes holds
\* event_callback_data.mutex, and no step taken while an invocation runs
\* changes the stored callback or user data.
C26_InvocationsNeverOverlap ==
  /\ [](~(AppInvoking /\ DdsInvoking))
  /\ [](AppInvoking => mutex = "app")
  /\ [](DdsInvoking => mutex = "dds")
  /\ [][ (AppInvoking \/ DdsInvoking) =>
           (callback' = callback /\ user_data' = user_data) ]_vars

\* C26: a delivery is invoking the callback that an earlier call stored and
\* holds the mutex, so that no registration call can start.
C26_Witness ==
  /\ DdsInvoking
  /\ callback = "cb1" /\ user_data = "u1"
  /\ app.pc = "idle" /\ ret = "OK"
  /\ mutex = "dds"
  /\ ~ENABLED SetCallbackLock("null", "null")

-----------------------------------------------------------------------------
(* Threads and locks: the claims *)

\* Thread t is between line 94 (448) and the return of its call.
InSection(t) == thread[t].pc \in {"locked", "returning"}

\* C12: at no time are two threads both inside the allocation section of
\* rmw_create_service or the teardown section of rmw_destroy_service, and
\* ctx->endpoint_mutex is held by no thread that has returned or has not
\* reached the lock yet, whatever return path it took.
C12_TopologySerialized ==
  /\ \A t \in Threads : \A u \in Threads : (InSection(t) /\ InSection(u)) => t = u
  /\ \A t \in Threads : InSection(t) <=> endpoint_mutex = t
  /\ (\A t \in Threads : ~InSection(t)) => endpoint_mutex = "free"

\* C12: one thread is on an early return of rmw_create_service, nothing
\* allocated and the lock still held, while the other waits at line 448.
C12_Witness ==
  /\ thread["t1"] = [ pc |-> "returning", op |-> "create", ret |-> "nullptr" ]
  /\ ep[1].created = "no"
  /\ endpoint_mutex = "t1"
  /\ thread["t2"].pc = "waiting" /\ thread["t2"].op = "destroy"

\* C11: every rmw_create_service, rmw_destroy_service and
\* rmw_service_set_on_new_request_callback call and every on_data_available
\* call that starts eventually returns, under fair scheduling.
C11_EveryOperationReturns ==
  /\ \A t \in Threads : (thread[t].pc # "idle") ~> (thread[t].pc = "idle")
  /\ (app.pc # "idle") ~> (app.pc = "idle")
  /\ (dds.pc # "idle") ~> (dds.pc = "idle")

\* C11: a chain of waiting threads: one waits for ctx->endpoint_mutex, held by
\* a thread in rmw_destroy_service whose reader deletion waits for the
\* listener call that holds event_callback_data.mutex.
C11_Witness ==
  /\ thread["t2"].pc = "waiting"
  /\ endpoint_mutex = "t1"
  /\ thread["t1"].pc = "locked" /\ thread["t1"].op = "destroy"
  /\ dds.pc = "locked" /\ mutex = "dds"

-----------------------------------------------------------------------------
(* Topics: the claims *)

\* C21: at every moment the participant holds at most one topic object per
\* topic name; a step creates a topic only under a name that had none, and a
\* step that attaches to a name that has one leaves the number of topic
\* objects as it was.
C21_NoDuplicateTopics ==
  /\ [](\A n \in TopicNames : topic_objects[n] <= 1)
  /\ [][\A n \in TopicNames :
          /\ topic_objects'[n] > topic_objects[n] => topic_objects[n] = 0
          /\ (topics'[n] > topics[n] /\ topic_objects[n] > 0)
               => topic_objects'[n] = topic_objects[n]]_vars

\* C21: one thread's call created both topics and returned a service; the
\* other thread's call found both and holds a second reference on each.
C21_Witness ==
  /\ ep[2].created = "ok"
  /\ thread["t2"].pc = "idle"
  /\ thread["t1"].pc = "response_topic_held"
  /\ \A n \in TopicNames : topics[n] = 2 /\ topic_objects[n] = 1

-----------------------------------------------------------------------------
(* Teardown order: the claims *)

\* The calls of the last rmw_destroy_service call on slot e, as a set.
Torn(e) == Range(ep[e].torn)

\* Call a was made before call b in that call, if both were made.
TornBefore(e, a, b) ==
  (a \in Torn(e) /\ b \in Torn(e))
    => ReleasePosition(ep[e].torn, a) < ReleasePosition(ep[e].torn, b)

\* C22: the first rmw_destroy_service call on a live endpoint deletes the
\* response writer, then releases the scratch sequences, then deletes the read
\* condition, then the request reader, and only then updates discovery, no
\* later call made without the earlier ones; when it returns an error after
\* the discovery update was reached, writer and reader are deleted and stay so.
C22_TeardownOrder ==
  \A e \in Services :
    (ep[e].created = "ok" /\ ep[e].destroys = 1) =>
      /\ \A q \in ScratchSeqs :
           /\ TornBefore(e, "response_writer", q)
           /\ TornBefore(e, q, "read_condition")
           /\ q \in Torn(e) => "response_writer" \in Torn(e)
      /\ TornBefore(e, "read_condition", "request_reader")
      /\ TornBefore(e, "request_reader", "registration")
      /\ "read_condition" \in Torn(e) => ScratchSeqs \subseteq Torn(e)
      /\ "request_reader" \in Torn(e) => "read_condition" \in Torn(e)
      /\ "registration" \in Torn(e) => "request_reader" \in Torn(e)
      /\ ("registration" \in Torn(e) /\ ep[e].ret = "ERROR") =>
           /\ {"response_writer", "request_reader"} \cap ep[e].live = {}
           /\ {"response_writer", "request_reader"} \subseteq ep[e].released

\* C22: a first destroy call whose discovery update failed: it returned an
\* error with all of writer, sequences, read condition and reader released.
C22_Witness ==
  /\ ep[1].created = "ok" /\ ep[1].destroys = 1
  /\ ep[1].ret = "ERROR"
  /\ ep[1].torn = << "response_writer", "data_seq", "info_seq", "raw_data_sizes",
                     "read_condition", "request_reader", "registration" >>
  /\ {"response_writer", "request_reader"} \cap ep[1].live = {}

\* The services that were created and hold topic n.
Holders(n) == { e \in Services : ep[e].created = "ok" /\ n \in ep[e].live }

\* C23: a topic that a created service holds exists, with a reference for
\* each such service, whatever rmw_create_service calls have failed since
\* after attaching to it.
C23_FailedCreateKeepsSharedTopics ==
  \A n \in TopicNames :
    Holders(n) # {} => (topic_objects[n] = 1 /\ topics[n] >= Cardinality(Holders(n)))

\* C23: a call that found both topics of a created service has failed at the
\* creation of its reader and run the fail label; it has not returned yet.
C23_Witness ==
  /\ ep[2].created = "ok"
  /\ ep[1].created = "request_reader"
  /\ thread["t1"].pc = "returning"
  /\ \A n \in TopicNames : n \in Range(ep[1].order) /\ topics[n] = 1

\* C24: over any sequence of rmw_destroy_service calls on one handle, no
\* delete call is made on a writer, reader, read condition or scratch sequence
\* that an earlier call deleted. (As stated; the code breaks it.)
C24_NoDoubleRelease ==
  \A e \in Services :
    ep[e].dangling \cap
      ({"response_writer", "request_reader", "read_condition"} \cup ScratchSeqs) = {}


-----------------------------------------------------------------------------
(* QoS read-back: the claims *)

\* The rmw value of each policy of the dds_qos the last call read, by field of
\* the profile; lifespan only where the dds_qos has one.
ReadBack(dds_qos, f) ==
  CASE f = "reliability" -> convert_reliability(dds_qos.reliability)
    [] f = "durability" -> convert_durability(dds_qos.durability)
    [] f = "deadline" -> convert_deadline(dds_qos.deadline)
    [] f = "lifespan" -> convert_lifespan(dds_qos.lifespan)
    [] f = "liveliness" -> convert_liveliness(dds_qos.liveliness)
    [] f = "liveliness_lease_duration" ->
         convert_liveliness_lease_duration(dds_qos.liveliness)
    [] f = "history" -> convert_history(dds_qos.history)
    [] f = "depth" -> dds_qos.history.depth

\* C28 as stated: a read-back call that returns RMW_RET_OK, on the request
\* reader or on the response writer, has assigned every one of the eight
\* fields of the caller's profile.
C28_ReadBackCoversEveryField ==
  (qos.op \in {"request", "response"} /\ qos.ret = "OK") => qos.written = QosFields

\* C28 amended: a successful read-back on the response writer assigns all
\* eight fields from the writer's QoS; a successful read-back on the request
\* reader assigns the seven fields other than lifespan from the reader's QoS
\* and leaves lifespan as the caller passed it in.
C28_ReadBackByEntity ==
  [][ /\ (qos'.op = "response" /\ qos'.ret = "OK") =>
           /\ qos'.written = QosFields
           /\ \A f \in QosFields : qos'.profile[f] = ReadBack(qos'.read, f)
      /\ (qos'.op = "request" /\ qos'.ret = "OK") =>
           /\ qos'.written = QosFields \ {"lifespan"}
           /\ \A f \in QosFields \ {"lifespan"} :
                 qos'.profile[f] = ReadBack(qos'.read, f)
           /\ qos'.profile.lifespan = qos.profile.lifespan ]_vars

\* C28: the caller passed in a filled-in profile; the read-back on the request
\* reader succeeded, replaced the other seven fields and left its lifespan of
\* five seconds.
C28_Witness ==
  /\ qos.op = "request" /\ qos.ret = "OK"
  /\ qos.profile.lifespan = [sec |-> 5, nsec |-> 0]
  /\ qos.profile.reliability = "RMW_QOS_POLICY_RELIABILITY_BEST_EFFORT"
  /\ qos.profile.deadline = [sec |-> 1, nsec |-> 0]
  /\ qos.profile.depth = 1

=============================================================================
